---- MODULE Spec2Model ----
(***************************************************************************)
(* simple-redis-mutex: a lock on a redis key (SET NX PX), released by a    *)
(* compare-delete-publish script, with a blocking lock() that waits for    *)
(* the release notification, a polling timer and a failAfter deadline.     *)
(*                                                                         *)
(* Callers are asynchronous tasks.  A caller lives in a node process (its  *)
(* host); the callers of one host share the module-level `callbacks`,      *)
(* `subscriber` and `scriptHash`.  Every store command is one atomic step  *)
(* of the store; the continuation that follows the command's `await` is a  *)
(* later step of the caller.  Commands of different callers reach the      *)
(* store in any order.                                                     *)
(***************************************************************************)
EXTENDS Integers, Sequences, FiniteSets, TLC

\* ------------------------------------------------------------- bounds
NProcs == 3        \* callers
MaxCalls == 3      \* tryLock invocations in a run (direct calls and attempts of lock())
MaxTimeout == 2    \* lease lengths, in ticks of the store's clock
MaxAttempts == 3 \* SETs one lock() with the fifo option sends
MaxPoison == 2   \* messages that are not JSON, per process
MaxEnds == 2       \* 'end' events of a client in a run

Procs == 1..NProcs
Names == {"R", "C"}
Timeouts == 1..MaxTimeout
Hosts == {"h1", "h2"}                 \* node processes

\* ------------------------------------------------------------- values
Nil == <<0, 0>>                       \* redis nil / absent key
Null == "null"                        \* scriptHash == null
Sha == "sha"                          \* the hash SCRIPT LOAD returns

getLockKey(lockName) == <<"@simple-redis-mutex:lock-", lockName>>
LockKeys == {getLockKey(n) : n \in Names}

\* String(Math.random()): a value no other invocation has; the i-th invocation
\* of caller p draws <<p, i>>
lockValue(p, i) == <<p, i>>

NoHandle == [kind |-> "none", name |-> "", val |-> Nil, timeout |-> 0,
             fencingToken |-> 0, released |-> FALSE]

\* a failed tryLock whose handle carries a token that could be a real one
dummyWithToken(n) == [kind |-> "dummy", name |-> n, val |-> Nil, timeout |-> 0,
                      fencingToken |-> 0, released |-> FALSE]

\* the handle of a failed tryLock: dummyRelease
dummyRelease(n) == [kind |-> "dummy", name |-> n, val |-> Nil, timeout |-> 0,
                    fencingToken |-> -1, released |-> FALSE]

\* the handle of a successful tryLock: release, with its closure
\* (lockKey, lockValue, timeout, released) and its fencingToken
releaseHandle(t, v) == [kind |-> "real", name |-> t.name, val |-> v,
                        timeout |-> t.timeout, fencingToken |-> t.tok,
                        released |-> FALSE]

\* a lock() operation: its promise (st, and error once rejected), its closure
\* (attempting, pollingId, and failId: <<>> when no timer is set, <<F>> for a
\* timer of F milliseconds), its arguments, the index of its first tryLock
\* invocation, the times onFail was invoked, and the rejections of its
\* attempts that nothing handles
NoLock == [st |-> "none", attempting |-> FALSE, pollingId |-> FALSE,
           failId |-> <<>>, name |-> "", timeout |-> 0, first |-> 0,
           onFail |-> 0, error |-> <<>>, unhandled |-> 0]

\* the values of options.failAfter: not given, or a number of milliseconds
FailAfters == {<<>>, <<1>>}

\* new Error(`Lock "${lockName}" could not be acquired after ${failAfter} millis`)
Error(lockName, failAfter) ==
  <<"Lock", lockName, "could not be acquired after", failAfter, "millis">>

VARIABLES
  kv,          \* store: lock key -> value, Nil when absent
  pttl,        \* store: lock key -> remaining lease (0 when absent)
  counter,     \* store: the fencing-tokens counter
  scriptCache, \* store: whether the release script is in the script cache
  subscriber,  \* host -> "none" | "open" | "ready" (subscribed at the store)
               \*         | "closed" (quit() called: isOpen is false)
  ending,      \* host -> position of the 'end' handler: "no" | "unsub" | "quit"
               \*         | "done"
  ends,        \* host -> 'end' events emitted
  orphan,      \* host -> state of a subscriber client the variable
               \*         `subscriber` no longer refers to: "none" | "open" | "ready"
  nextId,      \* store: name -> the counter of key `lock-<name>:next-id`
  lastOutId,   \* store: name -> the counter of key `lock-<name>:last-out-id`
  id,          \* caller -> the id its lock() got with fifo (0: none)
  rejections,  \* host -> promises of the subscribe handler that rejected
               \*         (nothing handles them)
  inbox,       \* host -> release messages delivered to its subscriber, unhandled
  callbacks,   \* host -> set of [lockKey, callback]
  scriptHash,  \* host -> Null | Sha
  host,        \* caller -> the node process it runs in
  role,        \* caller -> "off" | "client" | "locker"
  pc,          \* caller -> position
  calls,       \* caller -> tryLock invocations made
  tasks,       \* caller -> tryLock invocations in flight
  hd,          \* caller -> the handle it holds
  lk,          \* caller -> its lock() operation
  opn          \* caller -> lock() operations started

vars == <<kv, pttl, counter, scriptCache, nextId, lastOutId, id, subscriber,
          ending, ends, orphan, rejections, inbox,
          callbacks, scriptHash, host, role, pc, calls, tasks, hd, lk, opn>>

store == <<kv, pttl, counter, scriptCache>>
life == <<ending, ends, orphan>>
net == <<subscriber, inbox, life>>
lockOps == <<callbacks, lk, opn>>
fixed == <<host, role>>
tickets == <<nextId, lastOutId, id>>

HostOf(p) == host[p]
HostProcs(h) == {p \in Procs : HostOf(p) = h}

RECURSIVE SumTo(_, _)
SumTo(f, n) == IF n = 0 THEN 0 ELSE f[n] + SumTo(f, n - 1)

\* the run may start one more tryLock invocation
Budget == SumTo(calls, NProcs) < MaxCalls

\* ------------------------------------------------------------- the store
\* a SET without NX: the reply is always OK
setAlways(lockKey) == TRUE

\* SET lockKey lockValue NX PX timeout: whether the reply is OK
\* a SET that is refused while any lock key is present
setNXAnyKey(lockKey) == \A k \in LockKeys : kv[k] = Nil

setNX(lockKey) == kv[lockKey] = Nil

\* PUBLISH: the message reaches every subscribed connection.  A process
\* without a lock() caller never has a callback registered, its handler finds
\* no related callback whatever it receives: its messages are not kept
publish(message) ==
  [h \in Hosts |->
     IF /\ subscriber[h] = "ready" \/ orphan[h] = "ready"
        /\ \E p \in HostProcs(h) : role[p] = "locker"
     THEN Append(inbox[h], message)
     ELSE inbox[h]]

\* a release without the comparison: DEL and PUBLISH whatever the key holds
releaseAnyValue(lockKey, value) ==
  /\ kv' = [kv EXCEPT ![lockKey] = Nil]
  /\ pttl' = [pttl EXCEPT ![lockKey] = 0]
  /\ inbox' = publish([key |-> lockKey, value |-> value])

\* the lua script: GET == lockValue, then DEL and PUBLISH, as one store step
releaseScript(lockKey, value) ==
  IF kv[lockKey] = value
  THEN /\ kv' = [kv EXCEPT ![lockKey] = Nil]
       /\ pttl' = [pttl EXCEPT ![lockKey] = 0]
       /\ inbox' = publish([key |-> lockKey, value |-> value])
  ELSE UNCHANGED <<kv, pttl, inbox>>

\* a PEXPIRE that leaves the lease as it is
pExpireNoop(lockKey, timeout) == pttl

\* PEXPIRE lockKey timeout: sets the lease of whatever value the key holds
pExpire(lockKey, timeout) ==
  IF kv[lockKey] # Nil THEN [pttl EXCEPT ![lockKey] = timeout] ELSE pttl

\* a token read without the increment
incrStuck == counter

\* INCR of the fencing-tokens counter
incr == counter + 1

\* a clock that deletes a key one tick before its lease is over
TickEarly ==
  /\ \E k \in LockKeys : kv[k] # Nil
  /\ pttl' = [k \in LockKeys |-> IF pttl[k] > 2 THEN pttl[k] - 1 ELSE 0]
  /\ kv' = [k \in LockKeys |-> IF pttl[k] <= 2 THEN Nil ELSE kv[k]]
  /\ UNCHANGED <<counter, scriptCache, net, lockOps, scriptHash, fixed, rejections, tickets, pc,
                 calls, tasks, hd>>

\* the store's clock advances by one tick: leases run down, a key whose lease
\* is over is deleted, and nothing is published
Tick ==
  /\ \E k \in LockKeys : kv[k] # Nil
  /\ pttl' = [k \in LockKeys |-> IF pttl[k] > 0 THEN pttl[k] - 1 ELSE 0]
  /\ kv' = [k \in LockKeys |-> IF pttl[k] = 1 THEN Nil ELSE kv[k]]
  /\ UNCHANGED <<counter, scriptCache, net, lockOps, scriptHash, fixed, rejections, tickets, pc,
                 calls, tasks, hd>>

\* ------------------------------------------------------------- subscriber
\* a guard that never finds a subscriber
hasSubscriberNever(h) == FALSE

\* `subscriber != null && subscriber.isOpen`: isOpen is true from the call of
\* connect() until the call of quit()
hasSubscriber(h) == subscriber[h] \in {"open", "ready"}

\* listenForUpdates up to its first await: returns at once when a subscriber
\* exists and is open, else duplicates the client and starts connecting
listenForUpdates(h) ==
  IF hasSubscriber(h) THEN subscriber
  ELSE [subscriber EXCEPT ![h] = "open"]

\* `subscriber = redis.duplicate()` drops the reference to the client the
\* variable held: a client that is open stays connected and subscribed
dropped(h) ==
  IF ~hasSubscriber(h) /\ subscriber[h] \in {"open", "ready"}
  THEN [orphan EXCEPT ![h] = subscriber[h]]
  ELSE orphan

\* the tryLock invocation that caller p starts now, for lock() operation o
\* (0: a direct call); it waits in listenForUpdates only if it created the
\* subscriber
NewTask(p, n, T, o) ==
  [id |-> calls[p] + 1, op |-> o, name |-> n, timeout |-> T, tok |-> -1,
   st |-> IF hasSubscriber(HostOf(p)) THEN "set" ELSE "listen"]

\* the store registers the subscription; listenForUpdates returns to the
\* invocation that awaited it, which sends its SET
Subscribe(h) ==
  /\ subscriber[h] = "open"
  /\ subscriber' = [subscriber EXCEPT ![h] = "ready"]
  /\ tasks' = [p \in Procs |->
                 IF HostOf(p) = h
                 THEN {IF t.st = "listen" THEN [t EXCEPT !.st = "set"] ELSE t
                         : t \in tasks[p]}
                 ELSE tasks[p]]
  /\ UNCHANGED <<store, inbox, life, lockOps, scriptHash, fixed, rejections, tickets, pc, calls, hd>>

\* the store registers the subscription of a client that `subscriber` no
\* longer refers to; the invocations that await its subscribe() go on
SubscribeOrphan(h) ==
  /\ orphan[h] = "open"
  /\ orphan' = [orphan EXCEPT ![h] = "ready"]
  /\ tasks' = [p \in Procs |->
                 IF HostOf(p) = h
                 THEN {IF t.st = "listen_o" THEN [t EXCEPT !.st = "set"] ELSE t
                         : t \in tasks[p]}
                 ELSE tasks[p]]
  /\ UNCHANGED <<store, subscriber, ending, ends, inbox, lockOps, scriptHash, fixed, rejections, tickets,
                 pc, calls, hd>>

\* the client emits 'end': the handler registered by listenForUpdates starts
\* and sends UNSUBSCRIBE.  The client ends while its subscriber is
\* subscribed and no earlier 'end' is still being handled
End(h) ==
  /\ ending[h] \in {"no", "done"}
  /\ ends[h] < MaxEnds
  /\ subscriber[h] = "ready"
  /\ ending' = [ending EXCEPT ![h] = "unsub"]
  /\ ends' = [ends EXCEPT ![h] = @ + 1]
  /\ UNCHANGED <<store, subscriber, orphan, inbox, lockOps, scriptHash, fixed, rejections, tickets,
                 pc, calls, tasks, hd>>

\* the store has unsubscribed the client; the handler calls subscriber.quit(),
\* which makes isOpen false at once
EndUnsubscribed(h) ==
  /\ ending[h] = "unsub"
  /\ ending' = [ending EXCEPT ![h] = "quit"]
  /\ subscriber' = [subscriber EXCEPT ![h] = "closed"]
  /\ UNCHANGED <<store, ends, orphan, inbox, lockOps, scriptHash, fixed, rejections, tickets, pc, calls,
                 tasks, hd>>

\* quit() has returned: `subscriber = undefined`, whatever client the variable
\* refers to by now; the invocations that wait for that client's subscribe()
\* still wait for it
EndQuit(h) ==
  /\ ending[h] = "quit"
  /\ ending' = [ending EXCEPT ![h] = "done"]
  /\ subscriber' = [subscriber EXCEPT ![h] = "none"]
  /\ orphan' = IF subscriber[h] \in {"open", "ready"}
               THEN [orphan EXCEPT ![h] = subscriber[h]]
               ELSE orphan
  /\ tasks' = [p \in Procs |->
                 IF HostOf(p) = h
                 THEN {IF t.st = "listen" THEN [t EXCEPT !.st = "listen_o"] ELSE t
                         : t \in tasks[p]}
                 ELSE tasks[p]]
  /\ UNCHANGED <<store, ends, inbox, lockOps, scriptHash, fixed, rejections, tickets, pc, calls, hd>>

\* ------------------------------------------------------------- tryLock
TryLockCall(p, n, T) ==
  /\ role[p] = "client"
  /\ pc[p] \in {"idle", "have"}
  /\ Budget
  /\ tasks' = [tasks EXCEPT ![p] = @ \cup {NewTask(p, n, T, 0)}]
  /\ subscriber' = listenForUpdates(HostOf(p))
  /\ calls' = [calls EXCEPT ![p] = @ + 1]
  /\ pc' = [pc EXCEPT ![p] = "try"]
  /\ hd' = [hd EXCEPT ![p] = NoHandle]
  /\ orphan' = dropped(HostOf(p))
  /\ UNCHANGED <<store, inbox, ending, ends, lockOps, scriptHash, fixed, rejections, tickets>>

\* a SET NX without PX: the key gets no expiry
TrySetNoPX(p, t) ==
  /\ t \in tasks[p]
  /\ t.st = "set"
  /\ LET lockKey == getLockKey(t.name) IN
     IF setNX(lockKey)
     THEN /\ kv' = [kv EXCEPT ![lockKey] = lockValue(p, t.id)]
          /\ tasks' = [tasks EXCEPT ![p] = (@ \ {t}) \cup {[t EXCEPT !.st = "ok"]}]
     ELSE /\ tasks' = [tasks EXCEPT ![p] = (@ \ {t}) \cup {[t EXCEPT !.st = "nil"]}]
          /\ UNCHANGED kv
  /\ UNCHANGED <<pttl, counter, scriptCache, net, lockOps, scriptHash, fixed,
                 rejections, tickets, pc, calls, hd>>

\* the store executes SET NX PX
TrySet(p, t) ==
  /\ t \in tasks[p]
  /\ t.st = "set"
  /\ LET lockKey == getLockKey(t.name) IN
     IF setNX(lockKey)
     THEN /\ kv' = [kv EXCEPT ![lockKey] = lockValue(p, t.id)]
          /\ pttl' = [pttl EXCEPT ![lockKey] = t.timeout]
          /\ tasks' = [tasks EXCEPT ![p] = (@ \ {t}) \cup {[t EXCEPT !.st = "ok"]}]
     ELSE /\ tasks' = [tasks EXCEPT ![p] = (@ \ {t}) \cup {[t EXCEPT !.st = "nil"]}]
          /\ UNCHANGED <<kv, pttl>>
  /\ UNCHANGED <<counter, scriptCache, net, lockOps, scriptHash, fixed, rejections, tickets, pc,
                 calls, hd>>

\* the reply was OK: the store executes INCR of the fencing counter
TryIncr(p, t) ==
  /\ t \in tasks[p]
  /\ t.st = "ok"
  /\ counter' = incr
  /\ tasks' = [tasks EXCEPT ![p] = (@ \ {t}) \cup {[t EXCEPT !.st = "tok", !.tok = incr]}]
  /\ UNCHANGED <<kv, pttl, scriptCache, net, lockOps, scriptHash, fixed, rejections, tickets, pc,
                 calls, hd>>

\* what tryLock returns: [false, dummyRelease] or [true, release]
tryLockResult(p, t) ==
  IF t.st = "tok" THEN releaseHandle(t, lockValue(p, t.id)) ELSE dummyRelease(t.name)

\* a direct tryLock returns to its caller
TryLockReturn(p, t) ==
  /\ t \in tasks[p]
  /\ t.op = 0
  /\ t.st \in {"nil", "tok"}
  /\ tasks' = [tasks EXCEPT ![p] = @ \ {t}]
  /\ hd' = [hd EXCEPT ![p] = tryLockResult(p, t)]
  /\ pc' = [pc EXCEPT ![p] = "have"]
  /\ UNCHANGED <<store, net, lockOps, scriptHash, fixed, rejections, tickets, calls>>

\* ------------------------------------------------------------- release
\* a release() without `if (released) return`
releaseUnguarded(h, hash) ==
  IF h.kind = "dummy" THEN "rel_noop"
  ELSE IF hash = Null THEN "rel_load"
  ELSE "rel_eval"

\* where release() goes first: `if (released) return` (dummyRelease does
\* nothing at all), else SCRIPT LOAD if the hash is unknown, else EVALSHA
release(h, hash) ==
  IF h.kind = "dummy" \/ h.released THEN "rel_noop"
  ELSE IF hash = Null THEN "rel_load"
  ELSE "rel_eval"

\* typeof redis.scriptLoad == 'function': the client of process h1 is a
\* RedisClient, that of process h2 has no scriptLoad (a cluster client)
isRedisClient(h) == h = "h1"

\* the handle a caller calls release() on: its own, or, for a caller the
\* handle was passed to, that of caller 1
handleOf(p) == IF role[p] = "sharer" THEN 1 ELSE p

ReleaseCall(p) ==
  /\ pc[p] = "have" \/ (role[p] = "sharer" /\ pc[p] = "idle")
  /\ hd[handleOf(p)].kind # "none"
  /\ LET first == release(hd[handleOf(p)], scriptHash[HostOf(p)]) IN
     pc' = [pc EXCEPT ![p] =
              IF first = "rel_noop" \/ isRedisClient(HostOf(p))
              THEN first ELSE "rel_direct"]
  /\ UNCHANGED <<store, net, lockOps, scriptHash, fixed, rejections, tickets, calls, tasks, hd>>

\* a call that had nothing to do resolves
Resume(p) ==
  /\ pc[p] \in {"rel_noop", "rf_noop"}
  /\ pc' = [pc EXCEPT ![p] = "have"]
  /\ UNCHANGED <<store, net, lockOps, scriptHash, fixed, rejections, tickets, calls, tasks, hd>>

\* an EVAL that deletes the key and publishes nothing
EvalDelOnly(p) ==
  /\ pc[p] = "rel_direct"
  /\ kv' = [kv EXCEPT ![getLockKey(hd[handleOf(p)].name)] = IF @ = hd[handleOf(p)].val THEN Nil ELSE @]
  /\ pttl' = [k \in LockKeys |-> IF kv'[k] = Nil THEN 0 ELSE pttl[k]]
  /\ pc' = [pc EXCEPT ![p] = "rel_direct_ret"]
  /\ UNCHANGED <<counter, scriptCache, net, lockOps, scriptHash, fixed, rejections, tickets, calls,
                 tasks, hd>>

\* the store executes EVAL of the release script (a client without scriptLoad)
Eval(p) ==
  /\ pc[p] = "rel_direct"
  /\ releaseScript(getLockKey(hd[handleOf(p)].name), hd[handleOf(p)].val)
  /\ pc' = [pc EXCEPT ![p] = "rel_direct_ret"]
  /\ UNCHANGED <<counter, scriptCache, subscriber, life, lockOps, scriptHash,
                 fixed, rejections, tickets, calls, tasks, hd>>

\* after `await redis.eval(...)`: `released = true; return`
EvalReturn(p) ==
  /\ pc[p] = "rel_direct_ret"
  /\ hd' = [hd EXCEPT ![handleOf(p)].released = TRUE]
  /\ pc' = [pc EXCEPT ![p] = "have"]
  /\ UNCHANGED <<store, net, lockOps, scriptHash, fixed, rejections, tickets, calls, tasks>>

\* the store executes SCRIPT LOAD: the script is in the cache
ScriptLoad(p) ==
  /\ pc[p] = "rel_load"
  /\ scriptCache' = TRUE
  /\ pc' = [pc EXCEPT ![p] = "rel_loaded"]
  /\ UNCHANGED <<kv, pttl, counter, net, lockOps, scriptHash, fixed, rejections, tickets, calls,
                 tasks, hd>>

\* the reply arrives: `scriptHash = await redis.scriptLoad(releaseScript)`,
\* then EVALSHA is sent
ScriptLoaded(p) ==
  /\ pc[p] = "rel_loaded"
  /\ scriptHash' = [scriptHash EXCEPT ![HostOf(p)] = Sha]
  /\ pc' = [pc EXCEPT ![p] = "rel_eval"]
  /\ UNCHANGED <<store, net, lockOps, fixed, rejections, tickets, calls, tasks, hd>>

\* the store executes EVALSHA: the script, or a NOSCRIPT error
EvalSha(p) ==
  /\ pc[p] = "rel_eval"
  /\ IF scriptCache
     THEN /\ releaseScript(getLockKey(hd[handleOf(p)].name), hd[handleOf(p)].val)
          /\ pc' = [pc EXCEPT ![p] = "rel_ret"]
     ELSE /\ pc' = [pc EXCEPT ![p] = "rel_noscript"]
          /\ UNCHANGED <<kv, pttl, inbox>>
  /\ UNCHANGED <<counter, scriptCache, subscriber, life, lockOps, scriptHash,
                 fixed, rejections, tickets, calls, tasks, hd>>

\* the NOSCRIPT reply arrives: the catch handler sets scriptHash to null and
\* the promise that release() awaits is fulfilled
ReleaseCatch(p) ==
  /\ pc[p] = "rel_noscript"
  /\ scriptHash' = [scriptHash EXCEPT ![HostOf(p)] = Null]
  /\ pc' = [pc EXCEPT ![p] = "rel_ret"]
  /\ UNCHANGED <<store, net, lockOps, fixed, rejections, tickets, calls, tasks, hd>>

\* after the await: `if (scriptHash == null) await release()` (which starts
\* with SCRIPT LOAD), else `released = true`
ReleaseReturn(p) ==
  /\ pc[p] = "rel_ret"
  /\ IF scriptHash[HostOf(p)] = Null
     THEN /\ pc' = [pc EXCEPT ![p] = "rel_load"]
          /\ scriptHash' = [scriptHash EXCEPT ![HostOf(p)] = Null]
          /\ UNCHANGED hd
     ELSE /\ pc' = [pc EXCEPT ![p] = "have"]
          /\ hd' = [hd EXCEPT ![handleOf(p)].released = TRUE]
          /\ UNCHANGED scriptHash
  /\ UNCHANGED <<store, net, lockOps, fixed, rejections, tickets, calls, tasks>>

\* ------------------------------------------------------------- refreshTimeout
\* refreshTimeout(): `if (released ...) { released = true; return }`, else GET
RefreshCall(p) ==
  /\ pc[p] = "have"
  /\ hd[p].kind # "none"
  /\ pc' = [pc EXCEPT ![p] =
              IF hd[p].kind = "dummy" \/ hd[p].released THEN "rf_noop" ELSE "rf_get"]
  /\ UNCHANGED <<store, net, lockOps, scriptHash, fixed, rejections, tickets, calls, tasks, hd>>

\* the store executes GET; on a value that is not lockValue the handle is
\* marked released and the call returns, else PEXPIRE is sent
RefreshGet(p) ==
  /\ pc[p] = "rf_get"
  /\ IF kv[getLockKey(hd[p].name)] # hd[p].val
     THEN /\ hd' = [hd EXCEPT ![p].released = TRUE]
          /\ pc' = [pc EXCEPT ![p] = "have"]
     ELSE /\ pc' = [pc EXCEPT ![p] = "rf_exp"]
          /\ UNCHANGED hd
  /\ UNCHANGED <<store, net, lockOps, scriptHash, fixed, rejections, tickets, calls, tasks>>

\* the store executes PEXPIRE lockKey timeout
RefreshExpire(p) ==
  /\ pc[p] = "rf_exp"
  /\ pttl' = pExpire(getLockKey(hd[p].name), hd[p].timeout)
  /\ pc' = [pc EXCEPT ![p] = "have"]
  /\ UNCHANGED <<kv, counter, scriptCache, net, lockOps, scriptHash, fixed, rejections, tickets,
                 calls, tasks, hd>>

\* ------------------------------------------------------------- lock
\* a clean() that leaves the deadline timer running
cleanKeepsDeadline(p) ==
  [lk[p] EXCEPT !.attempting = FALSE, !.pollingId = FALSE]

\* a clean() that leaves the callback registered
keepCallback(p) == callbacks

\* clean(): attempting = false, timers cleared and forgotten
clean(p) ==
  [lk[p] EXCEPT !.attempting = FALSE, !.pollingId = FALSE, !.failId = <<>>]

\* clean(): callbacks = callbacks.filter((cb) => cb.callback != attempt)
\* a filter that drops every callback of the operation's lock key
withoutKeyCallbacks(p) ==
  [callbacks EXCEPT ![HostOf(p)] =
     {cb \in @ : cb.lockKey # getLockKey(lk[p].name)}]

withoutCallback(p) ==
  [callbacks EXCEPT ![HostOf(p)] = {cb \in @ : cb.callback # p}]

\* lock(): the callback is pushed, the polling timer set, the failAfter timer
\* set when failAfter is given (fa # <<>>), and attempt() called once
LockCall(p, n, T, fa) ==
  /\ role[p] = "locker"
  /\ pc[p] = "idle"
  /\ Budget
  /\ callbacks' = [callbacks EXCEPT ![HostOf(p)] =
                     @ \cup {[lockKey |-> getLockKey(n), callback |-> p]}]
  /\ lk' = [lk EXCEPT ![p] =
              [st |-> "pending", attempting |-> TRUE, pollingId |-> TRUE,
               failId |-> fa, name |-> n, timeout |-> T,
               first |-> calls[p] + 1, onFail |-> 0, error |-> <<>>,
               unhandled |-> 0]]
  /\ opn' = [opn EXCEPT ![p] = @ + 1]
  /\ tasks' = [tasks EXCEPT ![p] = @ \cup {NewTask(p, n, T, opn[p] + 1)}]
  /\ subscriber' = listenForUpdates(HostOf(p))
  /\ calls' = [calls EXCEPT ![p] = @ + 1]
  /\ pc' = [pc EXCEPT ![p] = "wait"]
  /\ hd' = [hd EXCEPT ![p] = NoHandle]
  /\ orphan' = dropped(HostOf(p))
  /\ UNCHANGED <<store, inbox, ending, ends, scriptHash, fixed, rejections, tickets>>

\* a lock() whose polling timer never fires
NoPollTimer(p) ==
  /\ FALSE
  /\ UNCHANGED vars

\* the polling interval elapses: attempt()
PollTimer(p) ==
  /\ lk[p].pollingId
  /\ lk[p].attempting
  /\ Budget
  /\ tasks' = [tasks EXCEPT ![p] =
                 @ \cup {NewTask(p, lk[p].name, lk[p].timeout, opn[p])}]
  /\ calls' = [calls EXCEPT ![p] = @ + 1]
  /\ subscriber' = listenForUpdates(HostOf(p))
  /\ orphan' = dropped(HostOf(p))
  /\ UNCHANGED <<store, inbox, ending, ends, lockOps, scriptHash, fixed, rejections, tickets, pc, hd>>

\* a deadline timer that is set although failAfter was not given
FailTimerUnguarded(p) ==
  /\ lk[p].st = "pending"
  /\ lk' = [lk EXCEPT ![p] = [clean(p) EXCEPT !.onFail = @ + 1,
                                              !.st = "rejected",
                                              !.error = <<"undefined">>]]
  /\ callbacks' = withoutCallback(p)
  /\ pc' = [pc EXCEPT ![p] = "idle"]
  /\ UNCHANGED <<store, net, scriptHash, fixed, rejections, tickets, calls, tasks, hd, opn>>

\* failAfter elapses: clean(), onFail, reject (which does nothing to a
\* promise that is settled)
FailTimer(p) ==
  /\ lk[p].failId # <<>>
  /\ lk' = [lk EXCEPT ![p] =
              [clean(p) EXCEPT
                 !.onFail = @ + 1,
                 !.st = IF @ = "pending" THEN "rejected" ELSE @,
                 !.error = IF lk[p].st = "pending"
                           THEN Error(lk[p].name, lk[p].failId[1]) ELSE @]]
  /\ callbacks' = withoutCallback(p)
  /\ pc' = [pc EXCEPT ![p] = IF lk[p].st = "pending" THEN "idle" ELSE @]
  /\ UNCHANGED <<store, net, scriptHash, fixed, rejections, tickets, calls, tasks, hd, opn>>

\* the tryLock of an attempt returns: `if (!hasLock) return; clean();
\* resolve(release)`.  resolve on a settled promise does nothing, and the
\* closures of an operation that is over are not those of the current one
AttemptReturn(p, t) ==
  /\ t \in tasks[p]
  /\ t.op # 0
  /\ t.st \in {"nil", "tok"}
  /\ tasks' = [tasks EXCEPT ![p] = @ \ {t}]
  /\ IF t.st = "tok" /\ t.op = opn[p]
     THEN /\ callbacks' = withoutCallback(p)
          /\ IF lk[p].st = "pending"
             THEN /\ lk' = [lk EXCEPT ![p] = [clean(p) EXCEPT !.st = "resolved"]]
                  /\ hd' = [hd EXCEPT ![p] = tryLockResult(p, t)]
                  /\ pc' = [pc EXCEPT ![p] = "have"]
             ELSE /\ lk' = [lk EXCEPT ![p] = clean(p)]
                  /\ UNCHANGED <<hd, pc>>
     ELSE UNCHANGED <<callbacks, lk, hd, pc>>
  /\ UNCHANGED <<store, net, scriptHash, fixed, rejections, tickets, calls, opn>>

\* a payload on the release channel that is not JSON: one published by
\* another client, or the one string.format makes for a lock name that
\* contains a double quote; and what JSON.parse does with it
Malformed == [key |-> <<"", "">>, value |-> <<-1, -1>>]
SyntaxError == [key |-> <<"SyntaxError", "">>, value |-> <<-1, -1>>]

\* JSON.parse(message): the record the script wrote, or a SyntaxError thrown
parse(message) == IF message = Malformed THEN SyntaxError ELSE message

\* a filter that keeps every callback
allCallbacks(h, key) == callbacks[h]

\* `callbacks.filter((cb) => cb.lockKey == releasedLock.key)`
relatedCallbacks(h, key) == {cb \in callbacks[h] : cb.lockKey = key}

\* ------------------------------------------------------------- subscriber's handler
\* the message handler: JSON.parse, the callbacks of the released key, all
\* run; attempt() returns at once unless attempting
Dispatch(h) ==
  /\ inbox[h] # <<>>
  /\ parse(Head(inbox[h])) # SyntaxError
  /\ LET releasedLock == parse(Head(inbox[h]))
         related == relatedCallbacks(h, releasedLock.key)
         starters == {cb.callback : cb \in {c \in related : lk[c.callback].attempting}}
         \* only the first attempt can find no subscriber and wait for its own
         first == IF starters = {} THEN 0
                  ELSE CHOOSE p \in starters : \A q \in starters : p <= q
     IN /\ SumTo(calls, NProcs) + Cardinality(starters) <= MaxCalls
        /\ tasks' = [p \in Procs |->
                       IF p \in starters
                       THEN tasks[p] \cup
                              {[NewTask(p, lk[p].name, lk[p].timeout, opn[p])
                                  EXCEPT !.st = IF p = first THEN @ ELSE "set"]}
                       ELSE tasks[p]]
        /\ calls' = [p \in Procs |-> IF p \in starters THEN calls[p] + 1 ELSE calls[p]]
        /\ subscriber' = IF starters = {} THEN subscriber ELSE listenForUpdates(h)
        /\ orphan' = IF starters = {} THEN orphan ELSE dropped(h)
  /\ inbox' = [inbox EXCEPT ![h] = Tail(@)]
  /\ UNCHANGED <<store, ending, ends, lockOps, scriptHash, fixed, rejections, tickets, pc, hd>>

\* a payload that is not JSON reaches the subscribed process h
Poison(h) ==
  /\ subscriber[h] = "ready"
  /\ rejections[h] + Len(SelectSeq(inbox[h], LAMBDA m : m = Malformed)) < MaxPoison
  /\ inbox' = [inbox EXCEPT ![h] = Append(@, Malformed)]
  /\ UNCHANGED <<store, subscriber, life, rejections, lockOps, scriptHash, fixed,
                 tickets, pc, calls, tasks, hd>>

\* the subscribe handler gets it: JSON.parse throws in the first line of the
\* async handler, whose promise rejects; no callback is called
DispatchThrow(h) ==
  /\ inbox[h] # <<>>
  /\ parse(Head(inbox[h])) = SyntaxError
  /\ inbox' = [inbox EXCEPT ![h] = Tail(@)]
  /\ rejections' = [rejections EXCEPT ![h] = @ + 1]
  /\ UNCHANGED <<store, subscriber, life, lockOps, scriptHash, fixed, tickets,
                 pc, calls, tasks, hd>>

\* ------------------------------------------------------------- lock with a retry timer
\* The implementation of index.js: lock(client, lockName, {retryTimeMillis,
\* timeoutMillis, failAfterMillis}).  It uses the record lk[p] for the promise
\* acquireLock and its closure: pollingId stands for a pending
\* attemptTimeoutId timer and failId for a pending failTimeoutId timer.  One
\* lockValue per lock() call; a caller calls lock() once

\* lock(): the promise executor sets the failure timer when failAfterMillis
\* is given and calls attempt(), which sends SET lockKey lockValue NX
retryLock(p, n, fa) ==
  /\ role[p] = "retry"
  /\ pc[p] = "idle"
  /\ Budget
  /\ lk' = [lk EXCEPT ![p] =
              [NoLock EXCEPT !.st = "pending", !.failId = fa, !.name = n,
                             !.first = calls[p] + 1]]
  /\ opn' = [opn EXCEPT ![p] = @ + 1]
  /\ tasks' = [tasks EXCEPT ![p] =
                 @ \cup {[id |-> calls[p] + 1, op |-> opn[p] + 1, name |-> n,
                          timeout |-> 0, tok |-> -1, st |-> "set"]}]
  /\ calls' = [calls EXCEPT ![p] = @ + 1]
  /\ pc' = [pc EXCEPT ![p] = "wait"]
  /\ UNCHANGED <<store, net, callbacks, scriptHash, fixed, rejections, tickets, hd>>

\* the store executes SET lockKey lockValue NX (timeoutMillis not given)
retrySet(p, t) ==
  /\ t \in tasks[p]
  /\ t.st = "set"
  /\ LET lockKey == getLockKey(t.name) IN
     IF setNX(lockKey)
     THEN /\ kv' = [kv EXCEPT ![lockKey] = lockValue(p, t.op)]
          /\ tasks' = [tasks EXCEPT ![p] = (@ \ {t}) \cup {[t EXCEPT !.st = "ok"]}]
     ELSE /\ tasks' = [tasks EXCEPT ![p] = (@ \ {t}) \cup {[t EXCEPT !.st = "nil"]}]
          /\ UNCHANGED kv
  /\ UNCHANGED <<pttl, counter, scriptCache, net, lockOps, scriptHash, fixed, rejections, tickets,
                 pc, calls, hd>>

\* clientSetPromise.then: on 'OK' the failure timer is cleared and resolve()
\* called (lock() then returns releaseLock), else attemptTimeoutId =
\* setTimeout(attempt, retryTimeMillis)
retryThen(p, t) ==
  /\ t \in tasks[p]
  /\ t.st \in {"ok", "nil"}
  /\ tasks' = [tasks EXCEPT ![p] = @ \ {t}]
  /\ IF t.st = "ok"
     THEN /\ lk' = [lk EXCEPT ![p].failId = <<>>,
                              ![p].st = IF @ = "pending" THEN "resolved" ELSE @]
          /\ IF lk[p].st = "pending"
             THEN /\ pc' = [pc EXCEPT ![p] = "have"]
                  /\ hd' = [hd EXCEPT ![p] =
                              [NoHandle EXCEPT !.kind = "real", !.name = t.name,
                                               !.val = lockValue(p, t.op)]]
             ELSE UNCHANGED <<pc, hd>>
     ELSE /\ lk' = [lk EXCEPT ![p].pollingId = TRUE]
          /\ UNCHANGED <<pc, hd>>
  /\ UNCHANGED <<store, net, callbacks, opn, scriptHash, fixed, rejections, tickets, calls>>

\* retryTimeMillis elapses: attempt() sends the next SET
retryAttemptTimeout(p) ==
  /\ role[p] = "retry"
  /\ lk[p].pollingId
  /\ Budget
  /\ lk' = [lk EXCEPT ![p].pollingId = FALSE]
  /\ tasks' = [tasks EXCEPT ![p] =
                 @ \cup {[id |-> calls[p] + 1, op |-> opn[p], name |-> lk[p].name,
                          timeout |-> 0, tok |-> -1, st |-> "set"]}]
  /\ calls' = [calls EXCEPT ![p] = @ + 1]
  /\ UNCHANGED <<store, net, callbacks, opn, scriptHash, fixed, rejections, tickets, pc, hd>>

\* failAfterMillis elapses: a pending retry timer is cleared, reject()
retryFailTimeout(p) ==
  /\ role[p] = "retry"
  /\ lk[p].failId # <<>>
  /\ lk' = [lk EXCEPT ![p].failId = <<>>,
                      ![p].pollingId = FALSE,
                      ![p].st = IF @ = "pending" THEN "rejected" ELSE @]
  /\ pc' = [pc EXCEPT ![p] = IF lk[p].st = "pending" THEN "failed" ELSE @]
  /\ UNCHANGED <<store, net, callbacks, opn, scriptHash, fixed, rejections, tickets, calls, tasks, hd>>

\* releaseLock(): EVAL of the script that deletes the key if it holds lockValue
releaseLock(p) ==
  /\ role[p] = "retry"
  /\ pc[p] = "have"
  /\ LET lockKey == getLockKey(hd[p].name) IN
     kv' = [kv EXCEPT ![lockKey] = IF @ = hd[p].val THEN Nil ELSE @]
  /\ UNCHANGED <<pttl, counter, scriptCache, net, lockOps, scriptHash, fixed, rejections, tickets,
                 pc, calls, tasks, hd>>

\* ------------------------------------------------------------- lock with the fifo option
\* The implementation of part_004: lock(client, lockName, {retryTimeMillis,
\* timeoutMillis, failAfterMillis, fifo}), called with fifo: true.  The four
\* lua scripts it requires from './lua' are not part of the sources; the two
\* it uses with fifo are written here from their call sites: KEYS are lockKey
\* and lastOutIdKey, ARGV are lockValue, timeoutMillis and id, and the
\* failure timer counts a caller that gives up with INCR lastOutIdKey

acquireIgnoringId(lockKey, n, i) == setNX(lockKey)

\* acquireWithFifoScript answers 'OK', and sets the key, when the key is
\* free and every id before this one is out
acquireWithFifoScript(lockKey, n, i) ==
  /\ setNX(lockKey)
  /\ lastOutId[n] = i - 1

\* releaseWithFifoScript deletes the key, and counts its id as out, when the
\* key holds lockValue
releaseWithFifoScript(lockKey, v) == kv[lockKey] = v

\* lock(): INCR nextIdKey gives the id; then the promise executor sets the
\* failure timer when failAfterMillis is given and attempt() sends the script
fifoLock(p, n, fa) ==
  /\ role[p] = "fifo"
  /\ pc[p] = "idle"
  /\ nextId' = [nextId EXCEPT ![n] = @ + 1]
  /\ id' = [id EXCEPT ![p] = nextId[n] + 1]
  /\ lk' = [lk EXCEPT ![p] =
              [NoLock EXCEPT !.st = "pending", !.failId = fa, !.name = n,
                             !.first = calls[p] + 1]]
  /\ opn' = [opn EXCEPT ![p] = @ + 1]
  /\ tasks' = [tasks EXCEPT ![p] =
                 @ \cup {[id |-> calls[p] + 1, op |-> opn[p] + 1, name |-> n,
                          timeout |-> 0, tok |-> -1, st |-> "set"]}]
  /\ calls' = [calls EXCEPT ![p] = @ + 1]
  /\ pc' = [pc EXCEPT ![p] = "wait"]
  /\ UNCHANGED <<store, lastOutId, net, callbacks, scriptHash, fixed, rejections, hd>>

\* the store runs acquireWithFifoScript
fifoEval(p, t) ==
  /\ role[p] = "fifo"
  /\ t \in tasks[p]
  /\ t.st = "set"
  /\ LET lockKey == getLockKey(t.name) IN
     IF acquireWithFifoScript(lockKey, t.name, id[p])
     THEN /\ kv' = [kv EXCEPT ![lockKey] = lockValue(p, t.op)]
          /\ tasks' = [tasks EXCEPT ![p] = (@ \ {t}) \cup {[t EXCEPT !.st = "ok"]}]
     ELSE /\ tasks' = [tasks EXCEPT ![p] = (@ \ {t}) \cup {[t EXCEPT !.st = "nil"]}]
          /\ UNCHANGED kv
  /\ UNCHANGED <<pttl, counter, scriptCache, tickets, net, lockOps, scriptHash,
                 fixed, rejections, pc, calls, hd>>

\* .then of the eval: on 'OK' the failure timer is cleared and resolve()
\* called, else attemptTimeoutId = setTimeout(attempt, retryTimeMillis)
fifoThen(p, t) ==
  /\ role[p] = "fifo"
  /\ t \in tasks[p]
  /\ t.st \in {"ok", "nil"}
  /\ tasks' = [tasks EXCEPT ![p] = @ \ {t}]
  /\ IF t.st = "ok"
     THEN /\ lk' = [lk EXCEPT ![p].failId = <<>>,
                              ![p].st = IF @ = "pending" THEN "resolved" ELSE @]
          /\ IF lk[p].st = "pending"
             THEN /\ pc' = [pc EXCEPT ![p] = "have"]
                  /\ hd' = [hd EXCEPT ![p] =
                              [NoHandle EXCEPT !.kind = "real", !.name = t.name,
                                               !.val = lockValue(p, t.op)]]
             ELSE UNCHANGED <<pc, hd>>
     ELSE /\ lk' = [lk EXCEPT ![p].pollingId = TRUE]
          /\ UNCHANGED <<pc, hd>>
  /\ UNCHANGED <<store, net, callbacks, opn, scriptHash, fixed, rejections, tickets, calls>>

\* retryTimeMillis elapses: attempt() sends the script again
fifoAttemptTimeout(p) ==
  /\ role[p] = "fifo"
  /\ lk[p].pollingId
  /\ calls[p] < MaxAttempts
  /\ lk' = [lk EXCEPT ![p].pollingId = FALSE]
  /\ tasks' = [tasks EXCEPT ![p] =
                 @ \cup {[id |-> calls[p] + 1, op |-> opn[p], name |-> lk[p].name,
                          timeout |-> 0, tok |-> -1, st |-> "set"]}]
  /\ calls' = [calls EXCEPT ![p] = @ + 1]
  /\ UNCHANGED <<store, net, callbacks, opn, scriptHash, fixed, rejections, tickets, pc, hd>>

\* failAfterMillis elapses: a pending retry timer is cleared, INCR
\* lastOutIdKey, then reject()
fifoFailTimeout(p) ==
  /\ role[p] = "fifo"
  /\ lk[p].failId # <<>>
  /\ lastOutId' = [lastOutId EXCEPT ![lk[p].name] = @ + 1]
  /\ lk' = [lk EXCEPT ![p].failId = <<>>,
                      ![p].pollingId = FALSE,
                      ![p].st = IF @ = "pending" THEN "rejected" ELSE @]
  /\ pc' = [pc EXCEPT ![p] = IF lk[p].st = "pending" THEN "failed" ELSE @]
  /\ UNCHANGED <<store, nextId, id, net, callbacks, opn, scriptHash, fixed, rejections,
                 calls, tasks, hd>>

\* releaseLock(): the store runs releaseWithFifoScript
fifoReleaseLock(p) ==
  /\ role[p] = "fifo"
  /\ pc[p] = "have"
  /\ LET lockKey == getLockKey(hd[p].name) IN
     IF releaseWithFifoScript(lockKey, hd[p].val)
     THEN /\ kv' = [kv EXCEPT ![lockKey] = Nil]
          /\ lastOutId' = [lastOutId EXCEPT ![hd[p].name] = @ + 1]
     ELSE UNCHANGED <<kv, lastOutId>>
  /\ pc' = [pc EXCEPT ![p] = "done"]
  /\ UNCHANGED <<pttl, counter, scriptCache, nextId, id, net, lockOps,
                 scriptHash, fixed, rejections, calls, tasks, hd>>

\* ------------------------------------------------------------- store failures
\* SCRIPT FLUSH by any client of the store
ScriptFlush ==
  /\ scriptCache
  /\ scriptCache' = FALSE
  /\ UNCHANGED <<kv, pttl, counter, net, lockOps, scriptHash, fixed, rejections, tickets, pc, calls,
                 tasks, hd>>

\* redis.set rejects: the command did not reach the store
SetError(p, t) ==
  /\ t \in tasks[p]
  /\ t.st = "set"
  /\ tasks' = [tasks EXCEPT ![p] = (@ \ {t}) \cup {[t EXCEPT !.st = "err"]}]
  /\ UNCHANGED <<store, net, lockOps, scriptHash, fixed, rejections, tickets, pc, calls, hd>>

\* redis.incr rejects after the SET was answered OK
IncrError(p, t) ==
  /\ t \in tasks[p]
  /\ t.st = "ok"
  /\ tasks' = [tasks EXCEPT ![p] = (@ \ {t}) \cup {[t EXCEPT !.st = "err"]}]
  /\ UNCHANGED <<store, net, lockOps, scriptHash, fixed, rejections, tickets, pc, calls, hd>>

\* tryLock has no try/catch: the rejection of the awaited command rejects the
\* promise of a direct tryLock
TryLockThrow(p, t) ==
  /\ t \in tasks[p]
  /\ t.op = 0
  /\ t.st = "err"
  /\ tasks' = [tasks EXCEPT ![p] = @ \ {t}]
  /\ pc' = [pc EXCEPT ![p] = "try_threw"]
  /\ UNCHANGED <<store, net, lockOps, scriptHash, fixed, rejections, tickets, calls, hd>>

\* the tryLock of an attempt rejects: attempt() has a .then and no .catch, so
\* the rejection is handled by nobody and lock()'s promise is left as it is
AttemptThrow(p, t) ==
  /\ t \in tasks[p]
  /\ t.op # 0
  /\ t.st = "err"
  /\ tasks' = [tasks EXCEPT ![p] = @ \ {t}]
  /\ lk' = [lk EXCEPT ![p].unhandled = @ + 1]
  /\ UNCHANGED <<store, net, callbacks, opn, scriptHash, fixed, rejections, tickets, pc, calls, hd>>

\* redis.evalSha rejects with an error that is not NOSCRIPT
EvalError(p) ==
  /\ pc[p] = "rel_eval"
  /\ pc' = [pc EXCEPT ![p] = "rel_err"]
  /\ UNCHANGED <<store, net, lockOps, scriptHash, fixed, rejections, tickets, calls, tasks, hd>>

\* the catch handler rethrows (`else throw err`): release() rejects, and
\* `released` is still false
ReleaseThrow(p) ==
  /\ pc[p] = "rel_err"
  /\ pc' = [pc EXCEPT ![p] = "rel_threw"]
  /\ UNCHANGED <<store, net, lockOps, scriptHash, fixed, rejections, tickets, calls, tasks, hd>>

\* ------------------------------------------------------------- specifications
InitStore ==
  /\ kv = [k \in LockKeys |-> Nil]
  /\ pttl = [k \in LockKeys |-> 0]
  /\ counter = 0
  /\ scriptCache = FALSE
  /\ nextId = [n \in Names |-> 0]
  /\ lastOutId = [n \in Names |-> 0]

InitClients ==
  /\ subscriber = [h \in Hosts |-> "none"]
  /\ ending = [h \in Hosts |-> "no"]
  /\ ends = [h \in Hosts |-> 0]
  /\ orphan = [h \in Hosts |-> "none"]
  /\ inbox = [h \in Hosts |-> <<>>]
  /\ rejections = [h \in Hosts |-> 0]
  /\ callbacks = [h \in Hosts |-> {}]
  /\ scriptHash = [h \in Hosts |-> Null]
  /\ pc = [p \in Procs |-> "idle"]
  /\ calls = [p \in Procs |-> 0]
  /\ tasks = [p \in Procs |-> {}]
  /\ hd = [p \in Procs |-> NoHandle]
  /\ lk = [p \in Procs |-> NoLock]
  /\ opn = [p \in Procs |-> 0]
  /\ id = [p \in Procs |-> 0]

\* two callers of one process use tryLock, release and refreshTimeout on any
\* name, one call at a time each; leases expire
Init ==
  /\ InitStore
  /\ InitClients
  /\ role = [p \in Procs |-> IF p \in {1, 2} THEN "client" ELSE "off"]
  /\ host = [p \in Procs |-> "h1"]

Next ==
  \/ \E p \in Procs, n \in Names, T \in Timeouts : TryLockCall(p, n, T)
  \/ \E p \in Procs : \E t \in tasks[p] : TrySet(p, t)
  \/ \E p \in Procs : \E t \in tasks[p] : TryIncr(p, t)
  \/ \E p \in Procs : \E t \in tasks[p] : TryLockReturn(p, t)
  \/ \E p \in Procs : ReleaseCall(p)
  \/ \E p \in Procs : ScriptLoad(p)
  \/ \E p \in Procs : ScriptLoaded(p)
  \/ \E p \in Procs : EvalSha(p)
  \/ \E p \in Procs : ReleaseReturn(p)
  \/ \E p \in Procs : RefreshCall(p)
  \/ \E p \in Procs : RefreshGet(p)
  \/ \E p \in Procs : RefreshExpire(p)
  \/ \E p \in Procs : Resume(p)
  \/ \E h \in Hosts : Subscribe(h)
  \/ Tick

Spec == Init /\ [][Next]_vars

\* every caller, in two processes, calls tryLock once; nothing is released
\* and no lease runs out
InitRace ==
  /\ InitStore
  /\ InitClients
  /\ role = [p \in Procs |-> "client"]
  /\ host = [p \in Procs |-> IF p = NProcs THEN "h2" ELSE "h1"]

FirstCall(p, n, T) ==
  /\ pc[p] = "idle"
  /\ TryLockCall(p, n, T)

NextRace ==
  \/ \E p \in Procs, n \in Names, T \in Timeouts : FirstCall(p, n, T)
  \/ \E p \in Procs : \E t \in tasks[p] : TrySet(p, t)
  \/ \E p \in Procs : \E t \in tasks[p] : TryIncr(p, t)
  \/ \E p \in Procs : \E t \in tasks[p] : TryLockReturn(p, t)
  \/ \E h \in Hosts : Subscribe(h)

SpecRace == InitRace /\ [][NextRace]_vars

\* every caller, in one process, uses lock() and releases what it got; no
\* lease runs out, so that the length of a lease plays no part
InitLock ==
  /\ InitStore
  /\ InitClients
  /\ role = [p \in Procs |-> "locker"]
  /\ host = [p \in Procs |-> "h1"]

NextLock ==
  \/ \E p \in Procs, n \in Names, fa \in FailAfters : LockCall(p, n, MaxTimeout, fa)
  \/ \E p \in Procs : PollTimer(p)
  \/ \E p \in Procs : FailTimer(p)
  \/ \E p \in Procs : \E t \in tasks[p] : TrySet(p, t)
  \/ \E p \in Procs : \E t \in tasks[p] : TryIncr(p, t)
  \/ \E p \in Procs : \E t \in tasks[p] : AttemptReturn(p, t)
  \/ \E h \in Hosts : Subscribe(h)
  \/ \E h \in Hosts : Dispatch(h)
  \/ \E p \in Procs : ReleaseCall(p)
  \/ \E p \in Procs : ScriptLoad(p)
  \/ \E p \in Procs : ScriptLoaded(p)
  \/ \E p \in Procs : EvalSha(p)
  \/ \E p \in Procs : ReleaseReturn(p)
  \/ \E p \in Procs : Resume(p)

SpecLock == InitLock /\ [][NextLock]_vars

\* two callers of one process run lock() on one name without failAfter, and
\* each calls release() once it has the lock; leases expire.  Of the ticks of
\* a polling timer, those that come while the key is held or while an attempt
\* of the operation is in flight are left out.  Every step that is possible
\* is taken in the end: the store answers, timers fire, time passes
Lockers == {1, 2}

InitLive ==
  /\ InitStore
  /\ InitClients
  /\ role = [p \in Procs |-> IF p \in Lockers THEN "locker" ELSE "off"]
  /\ host = [p \in Procs |-> "h1"]

PollWhenFree(p) ==
  /\ lk[p].attempting
  /\ tasks[p] = {}
  /\ kv[getLockKey(lk[p].name)] = Nil
  /\ PollTimer(p)

\* the caller's work is done: it calls release()
Leave(p) ==
  /\ ~hd[p].released
  /\ ReleaseCall(p)

TrySetAny(p) == \E t \in tasks[p] : TrySet(p, t)
TryIncrAny(p) == \E t \in tasks[p] : TryIncr(p, t)
AttemptReturnAny(p) == \E t \in tasks[p] : AttemptReturn(p, t)

NextLive ==
  \/ \E p \in Procs, T \in Timeouts : LockCall(p, "R", T, <<>>)
  \/ \E p \in Procs : PollWhenFree(p)
  \/ \E p \in Procs : TrySetAny(p)
  \/ \E p \in Procs : TryIncrAny(p)
  \/ \E p \in Procs : AttemptReturnAny(p)
  \/ \E h \in Hosts : Subscribe(h)
  \/ \E h \in Hosts : Dispatch(h)
  \/ \E p \in Procs : Leave(p)
  \/ \E p \in Procs : ScriptLoad(p)
  \/ \E p \in Procs : ScriptLoaded(p)
  \/ \E p \in Procs : EvalSha(p)
  \/ \E p \in Procs : ReleaseReturn(p)
  \/ Tick

FairLive ==
  /\ \A p \in Procs : WF_vars(\E T \in Timeouts : LockCall(p, "R", T, <<>>))
  /\ \A p \in Procs : WF_vars(PollWhenFree(p))
  /\ \A p \in Procs : WF_vars(TrySetAny(p))
  /\ \A p \in Procs : WF_vars(TryIncrAny(p))
  /\ \A p \in Procs : WF_vars(AttemptReturnAny(p))
  /\ \A h \in Hosts : WF_vars(Subscribe(h))
  /\ \A h \in Hosts : WF_vars(Dispatch(h))
  /\ \A p \in Procs : WF_vars(Leave(p))
  /\ \A p \in Procs : WF_vars(ScriptLoad(p))
  /\ \A p \in Procs : WF_vars(ScriptLoaded(p))
  /\ \A p \in Procs : WF_vars(EvalSha(p))
  /\ \A p \in Procs : WF_vars(ReleaseReturn(p))
  /\ WF_vars(Tick)

SpecLive == InitLive /\ [][NextLive]_vars /\ FairLive

\* one caller runs lock() and never releases (it has crashed), the other
\* runs lock() with a polling timer; leases expire, and nothing is ever
\* published
InitCrash ==
  /\ InitStore
  /\ InitClients
  /\ role = [p \in Procs |-> IF p \in Lockers THEN "locker" ELSE "off"]
  /\ host = [p \in Procs |-> IF p = 1 THEN "h1" ELSE "h2"]

NextCrash ==
  \/ \E p \in Procs, T \in Timeouts : LockCall(p, "R", T, <<>>)
  \/ \E p \in Procs : PollWhenFree(p)
  \/ \E p \in Procs : TrySetAny(p)
  \/ \E p \in Procs : TryIncrAny(p)
  \/ \E p \in Procs : AttemptReturnAny(p)
  \/ \E h \in Hosts : Subscribe(h)
  \/ Tick

FairCrash ==
  /\ \A p \in Procs : WF_vars(\E T \in Timeouts : LockCall(p, "R", T, <<>>))
  /\ \A p \in Procs : WF_vars(PollWhenFree(p))
  /\ \A p \in Procs : WF_vars(TrySetAny(p))
  /\ \A p \in Procs : WF_vars(TryIncrAny(p))
  /\ \A p \in Procs : WF_vars(AttemptReturnAny(p))
  /\ \A h \in Hosts : WF_vars(Subscribe(h))
  /\ WF_vars(Tick)

SpecCrash == InitCrash /\ [][NextCrash]_vars /\ FairCrash

\* two callers of one process use tryLock and release; store commands may
\* fail and the script cache may be flushed
InitFault ==
  /\ InitStore
  /\ InitClients
  /\ role = [p \in Procs |-> IF p \in {1, 2} THEN "client" ELSE "off"]
  /\ host = [p \in Procs |-> "h1"]

NextFault ==
  \/ \E p \in Procs, n \in Names : TryLockCall(p, n, MaxTimeout)
  \/ \E p \in Procs : \E t \in tasks[p] : TrySet(p, t)
  \/ \E p \in Procs : \E t \in tasks[p] : SetError(p, t)
  \/ \E p \in Procs : \E t \in tasks[p] : TryIncr(p, t)
  \/ \E p \in Procs : \E t \in tasks[p] : IncrError(p, t)
  \/ \E p \in Procs : \E t \in tasks[p] : TryLockReturn(p, t)
  \/ \E p \in Procs : \E t \in tasks[p] : TryLockThrow(p, t)
  \/ \E h \in Hosts : Subscribe(h)
  \/ \E p \in Procs : ReleaseCall(p)
  \/ \E p \in Procs : ScriptLoad(p)
  \/ \E p \in Procs : ScriptLoaded(p)
  \/ \E p \in Procs : EvalSha(p)
  \/ \E p \in Procs : EvalError(p)
  \/ \E p \in Procs : ReleaseCatch(p)
  \/ \E p \in Procs : ReleaseReturn(p)
  \/ \E p \in Procs : ReleaseThrow(p)
  \/ \E p \in Procs : Resume(p)
  \/ ScriptFlush

SpecFault == InitFault /\ [][NextFault]_vars

\* one caller uses tryLock while two others wait in lock() with a polling
\* timer, in one process; the commands of a try-acquire may fail
InitFaultLock ==
  /\ InitStore
  /\ InitClients
  /\ role = [p \in Procs |-> IF p = 1 THEN "client" ELSE "locker"]
  /\ host = [p \in Procs |-> "h1"]

NextFaultLock ==
  \/ \E p \in Procs, n \in Names : TryLockCall(p, n, MaxTimeout)
  \/ \E p \in Procs, n \in Names : LockCall(p, n, MaxTimeout, <<>>)
  \/ \E p \in Procs : PollTimer(p)
  \/ \E p \in Procs : \E t \in tasks[p] : TrySet(p, t)
  \/ \E p \in Procs : \E t \in tasks[p] : SetError(p, t)
  \/ \E p \in Procs : \E t \in tasks[p] : TryIncr(p, t)
  \/ \E p \in Procs : \E t \in tasks[p] : IncrError(p, t)
  \/ \E p \in Procs : \E t \in tasks[p] : TryLockReturn(p, t)
  \/ \E p \in Procs : \E t \in tasks[p] : TryLockThrow(p, t)
  \/ \E p \in Procs : \E t \in tasks[p] : AttemptReturn(p, t)
  \/ \E p \in Procs : \E t \in tasks[p] : AttemptThrow(p, t)
  \/ \E h \in Hosts : Subscribe(h)

SpecFaultLock == InitFaultLock /\ [][NextFaultLock]_vars

\* a tryLock caller and a lock() caller of one process on one name; the
\* client emits 'end' once and is used again
InitEnd ==
  /\ InitStore
  /\ InitClients
  /\ role = [p \in Procs |-> IF p = 1 THEN "client"
                              ELSE IF p = 2 THEN "locker" ELSE "off"]
  /\ host = [p \in Procs |-> "h1"]

NextEnd ==
  \/ \E p \in Procs : TryLockCall(p, "R", MaxTimeout)
  \/ \E p \in Procs : LockCall(p, "R", MaxTimeout, <<>>)
  \/ \E p \in Procs : PollTimer(p)
  \/ \E p \in Procs : \E t \in tasks[p] : TrySet(p, t)
  \/ \E p \in Procs : \E t \in tasks[p] : TryIncr(p, t)
  \/ \E p \in Procs : \E t \in tasks[p] : TryLockReturn(p, t)
  \/ \E p \in Procs : \E t \in tasks[p] : AttemptReturn(p, t)
  \/ \E h \in Hosts : Subscribe(h)
  \/ \E h \in Hosts : SubscribeOrphan(h)
  \/ \E h \in Hosts : End(h)
  \/ \E h \in Hosts : EndUnsubscribed(h)
  \/ \E h \in Hosts : EndQuit(h)
  \/ \E h \in Hosts : Dispatch(h)
  \/ \E p \in Procs : ReleaseCall(p)
  \/ \E p \in Procs : ScriptLoad(p)
  \/ \E p \in Procs : ScriptLoaded(p)
  \/ \E p \in Procs : EvalSha(p)
  \/ \E p \in Procs : ReleaseReturn(p)
  \/ \E p \in Procs : Resume(p)

SpecEnd == InitEnd /\ [][NextEnd]_vars

\* caller 1 uses a RedisClient (process h1) and caller 2 a client without
\* scriptLoad (process h2), both with tryLock and release; caller 3 waits in
\* lock() in process h1
InitPaths ==
  /\ InitStore
  /\ InitClients
  /\ role = [p \in Procs |-> IF p = 3 THEN "locker" ELSE "client"]
  /\ host = [p \in Procs |-> IF p = 2 THEN "h2" ELSE "h1"]

NextPaths ==
  \/ \E p \in Procs, n \in Names : TryLockCall(p, n, MaxTimeout)
  \/ \E p \in Procs, n \in Names : LockCall(p, n, MaxTimeout, <<>>)
  \/ \E p \in Procs : \E t \in tasks[p] : TrySet(p, t)
  \/ \E p \in Procs : \E t \in tasks[p] : TryIncr(p, t)
  \/ \E p \in Procs : \E t \in tasks[p] : TryLockReturn(p, t)
  \/ \E p \in Procs : \E t \in tasks[p] : AttemptReturn(p, t)
  \/ \E h \in Hosts : Subscribe(h)
  \/ \E h \in Hosts : Dispatch(h)
  \/ \E p \in Procs : ReleaseCall(p)
  \/ \E p \in Procs : Eval(p)
  \/ \E p \in Procs : EvalReturn(p)
  \/ \E p \in Procs : ScriptLoad(p)
  \/ \E p \in Procs : ScriptLoaded(p)
  \/ \E p \in Procs : EvalSha(p)
  \/ \E p \in Procs : ReleaseReturn(p)
  \/ \E p \in Procs : Resume(p)

SpecPaths == InitPaths /\ [][NextPaths]_vars

\* three callers of one process use the lock() of index.js on one name, with
\* or without failAfterMillis
InitRetry ==
  /\ InitStore
  /\ InitClients
  /\ role = [p \in Procs |-> "retry"]
  /\ host = [p \in Procs |-> "h1"]

NextRetry ==
  \/ \E p \in Procs, fa \in FailAfters : retryLock(p, "R", fa)
  \/ \E p \in Procs : \E t \in tasks[p] : retrySet(p, t)
  \/ \E p \in Procs : \E t \in tasks[p] : retryThen(p, t)
  \/ \E p \in Procs : retryAttemptTimeout(p)
  \/ \E p \in Procs : retryFailTimeout(p)
  \/ \E p \in Procs : releaseLock(p)

SpecRetry == InitRetry /\ [][NextRetry]_vars

\* three callers use the lock() of part_004 with fifo: true on one name, with
\* or without failAfterMillis
InitFifo ==
  /\ InitStore
  /\ InitClients
  /\ role = [p \in Procs |-> "fifo"]
  /\ host = [p \in Procs |-> "h1"]

NextFifo ==
  \/ \E p \in Procs, fa \in FailAfters : fifoLock(p, "R", fa)
  \/ \E p \in Procs : \E t \in tasks[p] : fifoEval(p, t)
  \/ \E p \in Procs : \E t \in tasks[p] : fifoThen(p, t)
  \/ \E p \in Procs : fifoAttemptTimeout(p)
  \/ \E p \in Procs : fifoFailTimeout(p)
  \/ \E p \in Procs : fifoReleaseLock(p)

SpecFifo == InitFifo /\ [][NextFifo]_vars

\* caller 1 acquires once with tryLock and passes the handle to caller 2 of
\* the same process: both call release() on it, at any time; caller 3
\* competes for the names
InitShare ==
  /\ InitStore
  /\ InitClients
  /\ role = [p \in Procs |-> IF p = 2 THEN "sharer" ELSE "client"]
  /\ host = [p \in Procs |-> "h1"]

NextShare ==
  \/ \E n \in Names : calls[1] = 0 /\ TryLockCall(1, n, MaxTimeout)
  \/ \E n \in Names : TryLockCall(3, n, MaxTimeout)
  \/ \E p \in Procs : \E t \in tasks[p] : TrySet(p, t)
  \/ \E p \in Procs : \E t \in tasks[p] : TryIncr(p, t)
  \/ \E p \in Procs : \E t \in tasks[p] : TryLockReturn(p, t)
  \/ \E h \in Hosts : Subscribe(h)
  \/ \E p \in Procs : ReleaseCall(p)
  \/ \E p \in Procs : ScriptLoad(p)
  \/ \E p \in Procs : ScriptLoaded(p)
  \/ \E p \in Procs : EvalSha(p)
  \/ \E p \in Procs : ReleaseReturn(p)
  \/ \E p \in Procs : Resume(p)

SpecShare == InitShare /\ [][NextShare]_vars

\* callers 1 and 2 use tryLock and release on one name while leases expire;
\* caller 3 of the same process waits in lock(), so the process handles the
\* release messages it receives
InitNotify ==
  /\ InitStore
  /\ InitClients
  /\ role = [p \in Procs |-> IF p = 3 THEN "locker" ELSE "client"]
  /\ host = [p \in Procs |-> "h1"]

NextNotify ==
  \/ \E p \in Procs, T \in Timeouts : TryLockCall(p, "R", T)
  \/ \E p \in Procs : LockCall(p, "R", MaxTimeout, <<>>)
  \/ \E p \in Procs : \E t \in tasks[p] : TrySet(p, t)
  \/ \E p \in Procs : \E t \in tasks[p] : TryIncr(p, t)
  \/ \E p \in Procs : \E t \in tasks[p] : TryLockReturn(p, t)
  \/ \E p \in Procs : \E t \in tasks[p] : AttemptReturn(p, t)
  \/ \E h \in Hosts : Subscribe(h)
  \/ \E h \in Hosts : Dispatch(h)
  \/ \E p \in Procs : ReleaseCall(p)
  \/ \E p \in Procs : ScriptLoad(p)
  \/ \E p \in Procs : ScriptLoaded(p)
  \/ \E p \in Procs : EvalSha(p)
  \/ \E p \in Procs : ReleaseReturn(p)
  \/ \E p \in Procs : Resume(p)
  \/ Tick

SpecNotify == InitNotify /\ [][NextNotify]_vars

\* The state of one process after caller 1 acquired name "R" with tryLock
\* (fencing token 1) and every other caller called lock("R"), with or without
\* failAfter, and had its first attempt fail: the subscriber is subscribed,
\* the callbacks are registered, the timers are set.  Attempts made so far by
\* the waiters are not counted in `calls`.  From there caller 1 releases, the
\* waiters are woken, poll and reach their deadlines; nobody else asks for
\* the name
Waiters == Procs \ {1}

InitWaiting(names) ==
  /\ kv = [k \in LockKeys |-> IF k = getLockKey("R") THEN lockValue(1, 1) ELSE Nil]
  /\ pttl = [k \in LockKeys |-> IF k = getLockKey("R") THEN MaxTimeout ELSE 0]
  /\ counter = 1
  /\ scriptCache = FALSE
  /\ nextId = [n \in Names |-> 0]
  /\ lastOutId = [n \in Names |-> 0]
  /\ id = [p \in Procs |-> 0]
  /\ subscriber = [h \in Hosts |-> IF h = "h1" THEN "ready" ELSE "none"]
  /\ ending = [h \in Hosts |-> "no"]
  /\ ends = [h \in Hosts |-> 0]
  /\ orphan = [h \in Hosts |-> "none"]
  /\ inbox = [h \in Hosts |-> <<>>]
  /\ rejections = [h \in Hosts |-> 0]
  /\ lk \in [Procs -> {NoLock} \cup
                        {[NoLock EXCEPT !.st = "pending", !.attempting = TRUE,
                                        !.pollingId = TRUE, !.failId = fa,
                                        !.name = n, !.timeout = MaxTimeout,
                                        !.first = 1] : fa \in FailAfters, n \in names}]
  /\ \A p \in Procs : lk[p] = NoLock <=> p = 1
  /\ callbacks = [h \in Hosts |->
                    IF h = "h1"
                    THEN {[lockKey |-> getLockKey(lk[p].name), callback |-> p] : p \in Waiters}
                    ELSE {}]
  /\ scriptHash = [h \in Hosts |-> Null]
  /\ pc = [p \in Procs |-> IF p = 1 THEN "have" ELSE "wait"]
  /\ calls = [p \in Procs |-> IF p = 1 THEN 1 ELSE 0]
  /\ tasks = [p \in Procs |-> {}]
  /\ hd = [p \in Procs |->
             IF p = 1
             THEN [kind |-> "real", name |-> "R", val |-> lockValue(1, 1),
                   timeout |-> MaxTimeout, fencingToken |-> 1, released |-> FALSE]
             ELSE NoHandle]
  /\ opn = [p \in Procs |-> IF p = 1 THEN 0 ELSE 1]
  /\ role = [p \in Procs |-> IF p = 1 THEN "client" ELSE "locker"]
  /\ host = [p \in Procs |-> "h1"]

InitWake == InitWaiting({"R"})

NextWake ==
  \/ ReleaseCall(1)
  \/ ScriptLoad(1)
  \/ ScriptLoaded(1)
  \/ EvalSha(1)
  \/ ReleaseReturn(1)
  \/ Resume(1)
  \/ \E h \in Hosts : Dispatch(h)
  \/ \E p \in Procs : PollTimer(p)
  \/ \E p \in Procs : FailTimer(p)
  \/ \E p \in Procs : \E t \in tasks[p] : TrySet(p, t)
  \/ \E p \in Procs : \E t \in tasks[p] : TryIncr(p, t)
  \/ \E p \in Procs : \E t \in tasks[p] : AttemptReturn(p, t)

SpecWake == InitWake /\ [][NextWake]_vars

\* the same with waiters on either name (the key of "C" was held and has
\* expired), and with callers that call lock() again after their deadline
InitDispatch == InitWaiting(Names)

NextDispatch ==
  \/ NextWake
  \/ \E p \in Procs, n \in Names : LockCall(p, n, MaxTimeout, <<>>)

SpecDispatch == InitDispatch /\ [][NextDispatch]_vars

\* the waiters of SpecWake on a channel that also carries payloads that are
\* not JSON
NextPoison ==
  \/ NextWake
  \/ \E h \in Hosts : Poison(h)
  \/ \E h \in Hosts : DispatchThrow(h)

SpecPoison == InitWake /\ [][NextPoison]_vars

\* ------------------------------------------------------------- properties
keyOf(h) == getLockKey(h.name)

\* callers whose tryLock on name n got OK from the store, got nil, or has not
\* had its SET executed yet
Acquired(n) ==
  {p \in Procs : \/ hd[p].kind = "real" /\ hd[p].name = n
                 \/ \E t \in tasks[p] : t.name = n /\ t.st \in {"ok", "tok"}}
Failed(n) ==
  {p \in Procs : \/ hd[p].kind = "dummy" /\ hd[p].name = n
                 \/ \E t \in tasks[p] : t.name = n /\ t.st = "nil"}
Undecided(n) ==
  {p \in Procs : \E t \in tasks[p] : t.name = n /\ t.st \in {"listen", "set"}}

\* C1: of the tryLock calls made concurrently on one name whose key was
\* absent, with no release and no expiry, never more than one acquires, and
\* once all of them are decided exactly one has acquired and the others failed
C1_ExactlyOneAcquires ==
  \A n \in Names :
    /\ Cardinality(Acquired(n)) <= 1
    /\ (Undecided(n) = {} /\ Acquired(n) \cup Failed(n) # {})
         => Cardinality(Acquired(n)) = 1

\* every caller has its answer for the same name: one handle, the rest dummies
C1_Witness ==
  \E n \in Names :
    /\ \A p \in Procs : pc[p] = "have" /\ hd[p].name = n
    /\ Cardinality({p \in Procs : hd[p].kind = "dummy"}) = NProcs - 1
    /\ Cardinality({p \in Procs : hd[p].kind = "real"}) = 1

\* caller p is in its critical section: its lock() resolved with a handle
\* whose release has not yet run the script at the store
Holding(p) ==
  /\ lk[p].st = "resolved"
  /\ hd[p].kind = "real"
  /\ ~hd[p].released
  /\ pc[p] \in {"have", "rel_load", "rel_loaded", "rel_eval", "rel_noscript"}

\* caller p is between its lock() resolving and its release() completing
\* (`released = true` is the last statement of release)
Uncompleted(p) ==
  /\ lk[p].st = "resolved"
  /\ hd[p].kind = "real"
  /\ ~hd[p].released

\* C2 (as amended): when every participant uses lock() on one name and no
\* lease expires, at most one participant is between its lock() resolving and
\* its release() deleting the key at the store
C2_NoOverlapUntilDeleted ==
  \A n \in Names : Cardinality({p \in Procs : Holding(p) /\ hd[p].name = n}) <= 1

\* C2 (as stated): at most one participant is between its lock() resolving
\* and its release() completing
C2_NoOverlapUntilCompleted ==
  \A n \in Names : Cardinality({p \in Procs : Uncompleted(p) /\ hd[p].name = n}) <= 1

\* one participant has released, and another, whose lock() was on the same
\* name, is in its critical section
C2_Witness ==
  \E p, q \in Procs :
    /\ p # q
    /\ lk[p].st = "resolved" /\ hd[p].kind = "real" /\ hd[p].released
    /\ Holding(q) /\ hd[q].name = hd[p].name

\* C3: a release() whose script runs while the key holds another holder's
\* value (A's lease ran out, B acquired) leaves the key and its lease as they
\* are
C3_ExpiredOwnerCannotRelease ==
  [][\A p \in Procs :
       (/\ pc[p] = "rel_eval" /\ pc'[p] = "rel_ret"
        /\ hd[p].kind = "real"
        /\ kv[keyOf(hd[p])] \notin {Nil, hd[p].val})
       => /\ kv'[keyOf(hd[p])] = kv[keyOf(hd[p])]
          /\ pttl'[keyOf(hd[p])] = pttl[keyOf(hd[p])]]_vars

\* A's script has run and the key holds the value of B's handle.  B's token
\* is the smaller one: B's SET came before A's INCR, hence before A's
\* release(), so it is not A's release that freed the key for B
C3_Witness ==
  \E a, b \in Procs :
    /\ a # b
    /\ pc[a] = "rel_ret"
    /\ hd[a].kind = "real" /\ hd[b].kind = "real"
    /\ hd[a].name = hd[b].name
    /\ kv[keyOf(hd[a])] = hd[b].val
    /\ hd[b].fencingToken < hd[a].fencingToken

\* C4: once a lock() has rejected at its deadline, no key holds a value set
\* by one of its attempts
C4_RejectedNeverHolds ==
  \A p \in Procs :
    lk[p].st = "rejected"
      => \A k \in LockKeys : ~(kv[k][1] = p /\ kv[k][2] >= lk[p].first)

\* C5: a step of refreshTimeout() taken while the key holds another holder's
\* value changes neither that value nor its lease
C5_FormerOwnerRefreshNoOp ==
  [][\A p \in Procs :
       (/\ pc[p] \in {"rf_get", "rf_exp"} /\ pc'[p] = "have"
        /\ kv[keyOf(hd[p])] \notin {Nil, hd[p].val})
       => /\ kv'[keyOf(hd[p])] = kv[keyOf(hd[p])]
          /\ pttl'[keyOf(hd[p])] = pttl[keyOf(hd[p])]]_vars

\* C6: of two handles on one name, the one whose value the key holds now was
\* set later, and has the larger fencing token
C6_TokensFollowAcquisitionOrder ==
  \A a, b \in Procs :
    (/\ a # b
     /\ hd[a].kind = "real" /\ hd[b].kind = "real"
     /\ hd[a].name = hd[b].name
     /\ kv[keyOf(hd[b])] = hd[b].val)
    => hd[a].fencingToken < hd[b].fencingToken

\* C7: release() called on a handle of a successful acquisition that is
\* already released sends nothing to the store and returns: the store and the
\* notifications are as before, whoever holds the key now
C7_SecondReleaseNoEffect ==
  [][\A p \in Procs :
       (hd[p].kind = "real" /\ hd[p].released /\ pc'[p] # pc[p]
          /\ pc[p] \in {"have", "rel_noop"} /\ pc'[p] \notin {"try", "rf_noop"})
       => /\ pc'[p] = IF pc[p] = "have" THEN "rel_noop" ELSE "have"
          /\ UNCHANGED <<store, inbox>>]_vars

\* a's only handle is released by a release() of its own (the process has the
\* script's hash, and b, on its only call, has released nothing), a calls
\* release() again, and the key holds the value of b's handle
C7_Witness ==
  \E a, b \in Procs :
    /\ a # b
    /\ calls[a] = 1 /\ calls[b] = 1
    /\ pc[a] = "rel_noop"
    /\ hd[a].kind = "real" /\ hd[a].released
    /\ scriptHash[HostOf(a)] = Sha
    /\ HostOf(b) = HostOf(a)
    /\ pc[b] = "have" /\ hd[b].kind = "real" /\ ~hd[b].released
    /\ hd[b].name = hd[a].name
    /\ kv[keyOf(hd[b])] = hd[b].val

C9_SequentialTokensIncrease ==
  [][\A p \in Procs : \A t \in tasks'[p] :
       (t.st = "tok" /\ t \notin tasks[p])
       => \A q \in Procs : hd[q].kind = "real" => hd[q].fencingToken < t.tok]_vars

\* every call of the run has acquired, and two handles on different names
\* carry the last two tokens
C9_Witness ==
  \E p, q \in Procs :
    /\ counter = MaxCalls
    /\ hd[p].kind = "real" /\ hd[q].kind = "real"
    /\ hd[p].name # hd[q].name
    /\ hd[p].fencingToken = counter - 1
    /\ hd[q].fencingToken = counter

\* C10: a lock() that waits with no attempt in flight while the key is absent
\* has the notification of the release waiting at its subscriber
C10_ReleaseWakesWaiter ==
  \A p \in Procs :
    (/\ lk[p].st = "pending"
     /\ tasks[p] = {}
     /\ kv[getLockKey(lk[p].name)] = Nil)
    => \E i \in 1..Len(inbox[HostOf(p)]) :
         inbox[HostOf(p)][i].key = getLockKey(lk[p].name)

C12_WaiterAcquiresAfterExpiry ==
  \A p \in Lockers : (lk[p].st = "pending") ~> (lk[p].st = "resolved")

\* a lock() resolved by an attempt that its polling timer started: the other
\* caller still has the handle it never released, and no message was sent
C12_Witness ==
  \E p, q \in Lockers :
    /\ p # q
    /\ lk[p].st = "resolved" /\ hd[p].fencingToken = 2 /\ calls[p] = 2
    /\ lk[q].st = "resolved" /\ ~hd[q].released /\ pc[q] = "have"
    /\ \A h \in Hosts : inbox[h] = <<>>

\* C13: the step that rejects a lock() at its deadline has invoked onFail
\* once and rejects with the error that names the lock and failAfter; a
\* lock() that is rejected has had onFail invoked exactly once, and one that
\* is pending or resolved never
C13_DeadlineRejects ==
  [][\A p \in Procs :
       /\ (lk[p].st = "pending" /\ lk'[p].st = "rejected")
            => /\ lk[p].failId # <<>>
               /\ lk'[p].error = Error(lk[p].name, lk[p].failId[1])
       /\ lk'[p].st = "rejected" => lk'[p].onFail = 1
       /\ lk'[p].st \in {"pending", "resolved"} => lk'[p].onFail = 0]_vars

\* a lock() with failAfter is rejected, with its error, while another caller
\* is in its critical section on the same name
C13_Witness ==
  \E p, q \in Procs :
    /\ p # q
    /\ lk[p].st = "rejected" /\ lk[p].onFail = 1
    /\ lk[p].error = Error(lk[p].name, 1)
    /\ tasks[p] = {}
    /\ Holding(q) /\ hd[q].name = lk[p].name
    /\ kv[keyOf(hd[q])] = hd[q].val

\* the outcome of caller p's lock() is final
Settled(p) == lk[p].st \in {"resolved", "rejected"}

\* C14: a lock() that has resolved stays resolved and one that has rejected
\* stays rejected (until the caller starts its next lock()), and from then on
\* its polling timer and its deadline timer are cleared, it attempts no more
\* and its callback is not registered
C14_OneOutcomeAndCleanup ==
  [][\A p \in Procs :
       /\ (Settled(p) /\ opn'[p] = opn[p]) => lk'[p].st = lk[p].st
       /\ lk'[p].st \in {"resolved", "rejected"}
            => /\ ~lk'[p].pollingId
               /\ lk'[p].failId = <<>>
               /\ ~lk'[p].attempting
               /\ \A cb \in callbacks'[HostOf(p)] : cb.callback # p]_vars

\* a lock() was rejected at its deadline and an attempt it had in flight
\* then got the key and returned: resolve was called after reject
C14_Witness ==
  \E p \in Procs :
    /\ lk[p].st = "rejected"
    /\ tasks[p] = {}
    /\ \E k \in LockKeys : kv[k][1] = p /\ kv[k][2] >= lk[p].first

\* this step is the store executing the release script of the handle whose
\* value key k holds
ReleasedNow(k) ==
  \E p \in Procs :
    /\ pc[p] = "rel_eval" /\ pc'[p] = "rel_ret"
    /\ hd[p].kind = "real" /\ keyOf(hd[p]) = k /\ hd[p].val = kv[k]

\* this step is the store executing a PEXPIRE
RenewedNow == \E p \in Procs : pc[p] = "rf_exp" /\ pc'[p] = "have"

C16_RefreshRestoresLease ==
  [][\A k \in LockKeys :
       /\ \A p \in Procs :
            (/\ pc[p] = "rf_exp" /\ pc'[p] = "have"
             /\ keyOf(hd[p]) = k /\ kv[k] = hd[p].val)
              => kv'[k] = kv[k] /\ pttl'[k] = hd[p].timeout
       /\ (kv[k] # Nil /\ pttl[k] > 1 /\ ~ReleasedNow(k)) => kv'[k] = kv[k]]_vars

\* the owner's PEXPIRE is about to run on its own key with one tick of a
\* two-tick lease left, while another caller's SET on that key is in flight
C16_Witness ==
  \E p, q \in Procs :
    /\ p # q
    /\ pc[p] = "rf_exp"
    /\ kv[keyOf(hd[p])] = hd[p].val
    /\ hd[p].timeout = MaxTimeout
    /\ pttl[keyOf(hd[p])] = 1
    /\ \E t \in tasks[q] : t.st = "set" /\ t.name = hd[p].name

\* C17: a tryLock that returned [false, dummyRelease] or that rejected has left
\* no key holding its lockValue in the store
C17_FailedTryLeavesNoKey ==
  \A p \in Procs :
    (\/ pc[p] = "try_threw"
     \/ pc[p] = "have" /\ hd[p].kind = "dummy")
      => \A k \in LockKeys : kv[k] # lockValue(p, calls[p])

\* C18: release() never rejects
C18_ReleaseNeverRaises == \A p \in Procs : pc[p] # "rel_threw"

\* C19: a lock() one of whose attempts failed with a store error has rejected
C19_AttemptFailureRejectsLock ==
  \A p \in Procs : lk[p].unhandled > 0 => lk[p].st = "rejected"

\* C20: a release() that has completed (released = true) has left the key
\* without the handle's value, whatever flushes of the script cache happened
C20_ReleaseSurvivesFlush ==
  \A p \in Procs :
    (hd[p].kind = "real" /\ hd[p].released)
      => kv[keyOf(hd[p])] # hd[p].val

\* the subscriber clients of host h that are connected or connecting
Live(h) ==
  (IF subscriber[h] \in {"open", "ready"} THEN 1 ELSE 0)
    + (IF orphan[h] \in {"open", "ready"} THEN 1 ELSE 0)

\* C21: every process has at most one subscriber client connected or
\* connecting at any time
C21_AtMostOneSubscriber == \A h \in Hosts : Live(h) <= 1

\* C22: when the 'end' handler has finished, every subscriber client that
\* existed when 'end' was emitted is closed and the variable is cleared; every
\* tryLock invocation that starts while no open subscriber exists creates
\* one, and once 'end' has been handled a release that deletes a key while
\* the new subscription is established delivers its message to the process
\* of the waiters
C22_TeardownThenRecreate ==
  [][\A h \in Hosts :
       /\ (ending[h] = "unsub" /\ ending'[h] = "quit") => subscriber'[h] = "closed"
       /\ (ending[h] = "quit" /\ ending'[h] = "done")
            => subscriber'[h] = "none" /\ orphan[h] = "none"
       /\ \A p \in HostProcs(h) :
            (calls'[p] > calls[p] /\ subscriber[h] \in {"none", "closed"})
              => subscriber'[h] = "open"
       /\ \A k \in LockKeys :
            (/\ ending[h] = "done"
             /\ subscriber[h] = "ready"
             /\ \E p \in HostProcs(h) : role[p] = "locker"
             /\ ReleasedNow(k))
              => /\ kv'[k] = Nil
                 /\ inbox'[h] = Append(inbox[h], [key |-> k, value |-> kv[k]])]_vars

\* caller p's lock() was called without failAfter and is not settled
WaitsForever(p) == lk[p].st = "pending" /\ lk[p].failId = <<>>

\* C23: a lock() called without failAfter keeps its callback registered, its
\* polling timer set and `attempting` true while it is pending; its next
\* state is pending or resolved, never rejected, and it resolves only in the
\* step in which one of its attempts returns with the lock
C23_NoDeadlineNeverRejects ==
  [][\A p \in Procs :
       WaitsForever(p) =>
         /\ lk[p].pollingId /\ lk[p].attempting
         /\ \E cb \in callbacks[HostOf(p)] :
              cb.callback = p /\ cb.lockKey = getLockKey(lk[p].name)
         /\ lk'[p].st \in {"pending", "resolved"}
         /\ lk'[p].st = "resolved"
              => /\ \E t \in tasks[p] : t.st = "tok" /\ t \notin tasks'[p]
                 /\ hd'[p].kind = "real"]_vars

\* a lock() without failAfter has had its attempt refused and waits, with no
\* attempt in flight, while another caller holds the key
C23_Witness ==
  \E p, q \in Procs :
    /\ p # q
    /\ WaitsForever(p)
    /\ tasks[p] = {}
    /\ calls[p] >= lk[p].first
    /\ Holding(q) /\ hd[q].name = lk[p].name
    /\ kv[keyOf(hd[q])] = hd[q].val

\* C24: the store step of release() has the same effect on both paths, EVAL
\* by a client without scriptLoad and EVALSHA by a RedisClient: if the key
\* holds the handle's value it is deleted and the message is published to the
\* subscribed processes, and a SET that then reaches the key succeeds; when
\* release() has returned on either path the key does not hold the value
C24_DirectEvalReleasesLikeCached ==
  [][\A p \in Procs :
       LET k == getLockKey(hd[p].name) IN
       /\ (/\ \/ pc[p] = "rel_direct" /\ pc'[p] = "rel_direct_ret"
              \/ pc[p] = "rel_eval" /\ pc'[p] = "rel_ret"
           /\ kv[k] = hd[p].val)
            => /\ kv'[k] = Nil /\ pttl'[k] = 0
               /\ setNX(k)'
               /\ \A h \in Hosts :
                    (subscriber[h] = "ready" /\ \E q \in HostProcs(h) : role[q] = "locker")
                      => inbox'[h] = Append(inbox[h], [key |-> k, value |-> hd[p].val])
       /\ (pc[p] \in {"rel_direct_ret", "rel_ret"} /\ pc'[p] = "have")
            => hd'[p].released /\ kv[k] # hd[p].val]_vars

\* the caller whose client has no scriptLoad has released its lock without
\* any script having been loaded; the key is free and the message waits in
\* the process of a lock() registered for that key
C24_Witness ==
  \E p \in Procs : \E h \in Hosts :
    /\ ~isRedisClient(HostOf(p))
    /\ ~scriptCache
    /\ hd[p].kind = "real" /\ hd[p].released /\ pc[p] = "have"
    /\ kv[keyOf(hd[p])] = Nil
    /\ inbox[h] # <<>>
    /\ Head(inbox[h]) = [key |-> keyOf(hd[p]), value |-> hd[p].val]
    /\ \E cb \in callbacks[h] : cb.lockKey = keyOf(hd[p])

\* C25: once the lock() of index.js has rejected, it sends no further SET,
\* sets no further retry timer, and the key does not come to hold its
\* lockValue
C25_RejectedStopsAttempting ==
  [][\A p \in Procs :
       (role[p] = "retry" /\ lk[p].st = "rejected") =>
         /\ \A t \in tasks'[p] : t.st = "set" => t \in tasks[p]
         /\ lk'[p].pollingId => lk[p].pollingId
         /\ \A k \in LockKeys :
              kv'[k] = lockValue(p, opn[p]) => kv[k] = lockValue(p, opn[p])]_vars

\* the store has answered 'OK' to an attempt of caller p's lock()
Granted(p) == lk[p].st = "resolved" \/ \E t \in tasks[p] : t.st = "ok"

Sharers == {p \in Procs : handleOf(p) = 1}

\* the store has run the release script for the handle of caller 1
ScriptRan == hd[1].released \/ \E q \in Sharers : pc[q] = "rel_ret"

\* the store runs the release script for the handle of caller 1 in this step
ScriptRuns == \E p \in Sharers : pc[p] = "rel_eval" /\ pc'[p] = "rel_ret"

C28_EverySetIsHandedOver ==
  \A p \in Procs :
    (role[p] = "locker" /\ lk[p].st = "resolved")
      => \A k \in LockKeys :
           (kv[k][1] = p /\ kv[k][2] >= lk[p].first) => kv[k] = hd[p].val

\* C29: when a tryLock sends its SET, the subscriber of its process is
\* subscribed to the release channel
C29_SubscribedBeforeSet ==
  [][\A p \in Procs : \A t \in tasks'[p] :
       (t.st = "set" /\ t \notin tasks[p])
         => subscriber'[HostOf(p)] = "ready"]_vars

\* the store runs the release script for caller p's handle in this step
RunsScript(p) == pc[p] = "rel_eval" /\ pc'[p] = "rel_ret"

\* the subscribed process h receives release message m in this step
Notified(h, m) == inbox'[h] = Append(inbox[h], m)

\* C30: the step of the release script publishes the message of its key and
\* value exactly when it deletes the key, which it does exactly when the key
\* holds the handle's value; a run for a handle whose lease has expired or
\* whose key another caller holds changes nothing and publishes nothing; and
\* no other step publishes
C30_PublishedIffDeleted ==
  [][/\ \A p \in Procs :
          RunsScript(p) =>
            LET h == hd[handleOf(p)]
                k == keyOf(h)
                m == [key |-> k, value |-> h.val]
            IN IF kv[k] = h.val
               THEN /\ kv'[k] = Nil
                    /\ subscriber[HostOf(p)] = "ready" => Notified(HostOf(p), m)
               ELSE UNCHANGED <<kv, pttl, inbox>>
     /\ \A h \in Hosts :
          Len(inbox'[h]) > Len(inbox[h])
            => \E p \in Procs :
                 RunsScript(p) /\ kv[keyOf(hd[handleOf(p)])] = hd[handleOf(p)].val]_vars

\* caller p's lease expired, caller q acquired the key, and the release
\* script has run for p's handle: no message, q still holds the key
C30_Witness ==
  \E p, q \in Procs :
    /\ p # q
    /\ pc[p] = "rel_ret" /\ hd[p].kind = "real"
    /\ hd[q].kind = "real" /\ hd[q].name = hd[p].name
    /\ kv[keyOf(hd[p])] = hd[q].val
    /\ subscriber[HostOf(p)] = "ready"
    /\ inbox[HostOf(p)] = <<>>
    /\ callbacks[HostOf(p)] # {}

\* the store has answered OK to a SET of waiter p
Won(p) ==
  \/ \E t \in tasks[p] : t.st \in {"ok", "tok"}
  \/ lk[p].st = "resolved"
  \/ \E k \in LockKeys : kv[k][1] = p

\* waiter p waits as lock() left it: callback registered, polling timer set
Registered(p) ==
  /\ [lockKey |-> getLockKey(lk[p].name), callback |-> p] \in callbacks[HostOf(p)]
  /\ lk[p].attempting
  /\ lk[p].pollingId

\* the release of caller 1 has completed, its message has been handled and
\* every attempt has returned
Quiet ==
  /\ pc[1] = "have" /\ hd[1].released
  /\ \A h \in Hosts : inbox[h] = <<>>
  /\ \A p \in Procs : tasks[p] = {}

\* C31: of the waiters on one name woken by the release, never more than one
\* gets the key; once the message is handled and the attempts have returned
\* exactly one has it, unless every waiter had reached its deadline; a
\* waiter that goes on waiting keeps its callback, its polling timer and its
\* deadline timer as they were
C31_OneWokenWaiterWins ==
  /\ [](/\ Cardinality({p \in Waiters : Won(p)}) <= 1
        /\ Quiet => \/ Cardinality({p \in Waiters : Won(p)}) = 1
                    \/ \A p \in Waiters : lk[p].st = "rejected"
        /\ \A p \in Waiters : lk[p].st = "pending" => Registered(p))
  /\ [][\A p \in Waiters :
          (lk[p].st = "pending" /\ lk'[p].st = "pending") => lk'[p] = lk[p]]_vars

\* one message woke both waiters: one resolved, the other still waits with
\* its callback and both its timers
C31_Witness ==
  \E p, q \in Waiters :
    /\ Quiet
    /\ calls[p] = 1 /\ calls[q] = 1
    /\ lk[p].st = "resolved" /\ hd[p].kind = "real"
    /\ lk[q].st = "pending" /\ Registered(q) /\ lk[q].failId # <<>>

\* the fencing tokens handed out: those of the handles of successful
\* acquisitions and of the acquisitions about to return
Tokens ==
  {<<p, hd[p].fencingToken>> : p \in {q \in Procs : hd[q].kind = "real"}}
    \cup UNION {{<<p, t.tok>> : t \in {u \in tasks[p] : u.st = "tok"}} : p \in Procs}

\* C32: the fencing counter changes only by the INCR of an acquisition whose
\* SET was answered OK, by one, once for that acquisition; an attempt whose
\* SET was answered nil never changes it and its handle has token -1; the
\* tokens of two successful acquisitions differ and each is positive
C32_OneIncrementPerAcquisition ==
  /\ [](/\ \A x, y \in Tokens : (x[1] # y[1]) => x[2] # y[2]
        /\ \A x \in Tokens : x[2] > 0 /\ x[2] <= counter
        /\ \A p \in Procs : hd[p].kind = "dummy" => hd[p].fencingToken = -1)
  /\ [][counter' # counter =>
          /\ counter' = counter + 1
          /\ \E p \in Procs : \E t \in tasks[p] :
               /\ t.st = "ok"
               /\ tasks'[p] = (tasks[p] \ {t}) \cup {[t EXCEPT !.st = "tok", !.tok = counter']}]_vars

\* after three calls, one of them failed, two handles carry the tokens 1
\* and 2 and the counter is 2
C32_Witness ==
  \E p, q \in Procs :
    /\ hd[p].kind = "real" /\ hd[p].fencingToken = 1 /\ calls[p] = 1
    /\ hd[q].kind = "real" /\ hd[q].fencingToken = 2 /\ calls[q] = 2
    /\ counter = 2

\* the subscribe handler of process h handles a message in this step
Handles(h) == inbox[h] # <<>> /\ inbox'[h] = Tail(inbox[h])

\* C33: the handling of a release message starts one attempt of every
\* waiter registered for the message's key at that moment and none of any
\* other caller
C33_EachRelatedCallbackOnce ==
  [][\A h \in Hosts : Handles(h) =>
       \A p \in HostProcs(h) :
         IF [lockKey |-> Head(inbox[h]).key, callback |-> p] \in callbacks[h]
         THEN /\ calls'[p] = calls[p] + 1
              /\ tasks[p] \subseteq tasks'[p]
              /\ Cardinality(tasks'[p] \ tasks[p]) = 1
         ELSE /\ calls'[p] = calls[p]
              /\ tasks'[p] = tasks[p]]_vars

\* the message of caller 1's release has been handled: the waiter on "R"
\* has the one attempt it started, the waiter on "C" has none and waits
C33_Witness ==
  \E p, q \in Waiters :
    /\ pc[1] = "rel_ret" /\ kv[getLockKey("R")] # hd[1].val
    /\ inbox[HostOf(p)] = <<>>
    /\ lk[p].st = "pending" /\ lk[p].name = "R" /\ Registered(p)
    /\ calls[p] = 1 /\ tasks[p] # {}
    /\ lk[q].st = "pending" /\ lk[q].name = "C" /\ Registered(q)
    /\ calls[q] = 0 /\ tasks[q] = {}

\* C34: a payload that cannot be parsed is dropped without an error leaving
\* the subscribe handler
C34_PoisonIsIgnored ==
  \A h \in Hosts : rejections[h] = 0

\* the callbacks of process h other than that of caller p
OthersCallbacks(cbs, h, p) == {cb \in cbs[h] : cb.callback # p}

\* C35: the step in which one lock() resolves or rejects leaves the state of
\* every other lock() of the process (its outcome, its attempting flag, its
\* polling timer, its deadline timer) and its registration as they were, on
\* the same name or on another
C35_CleanupTouchesOwnStateOnly ==
  [][\A p \in Procs :
       (lk[p].st = "pending" /\ lk'[p].st \in {"resolved", "rejected"})
         => /\ \A q \in Procs \ {p} : lk'[q] = lk[q]
            /\ OthersCallbacks(callbacks', HostOf(p), p)
                 = OthersCallbacks(callbacks, HostOf(p), p)]_vars

\* one lock() has resolved and one has rejected while a third, on the name of
\* the first, still waits with its callback and its timers
C35_Witness ==
  \E p, q, r \in Procs :
    /\ lk[p].st = "resolved"
    /\ lk[r].st = "rejected"
    /\ lk[q].st = "pending" /\ lk[q].name = lk[p].name
    /\ Registered(q) /\ lk[q].failId # <<>>

\* C36: a key that is present has a remaining lease of at least one tick and
\* at most the longest timeout; the lease of a key whose value stays grows
\* only by a PEXPIRE of refreshTimeout, and otherwise the clock takes the key
\* away when the lease runs out
C36_PresentKeyHasLease ==
  /\ [](\A k \in LockKeys :
          /\ kv[k] # Nil => pttl[k] \in 1..MaxTimeout
          /\ kv[k] = Nil => pttl[k] = 0)
  /\ [][\A k \in LockKeys :
          (kv[k] # Nil /\ kv'[k] = kv[k] /\ pttl'[k] > pttl[k]) => RenewedNow]_vars

\* a former holder, whose lease expired after its GET, is about to send
\* PEXPIRE while the second acquisition of the key holds it on its last tick
C36_Witness ==
  \E p \in Procs :
    /\ pc[p] = "rf_exp" /\ hd[p].kind = "real"
    /\ kv[keyOf(hd[p])] \notin {Nil, hd[p].val}
    /\ pttl[keyOf(hd[p])] = 1
    /\ counter = 2

\* the keys whose value or lease this step changes
Changed == {k \in LockKeys : kv'[k] # kv[k] \/ pttl'[k] # pttl[k]}

\* C37: a step of tryLock, release or refreshTimeout on one name changes the
\* value and the lease of no other name's key; the SET of a tryLock on a name
\* whose key is absent takes the key whatever the other keys hold; and the
\* clock takes a key away only when that key's own lease runs out
C37_NamesAreIndependent ==
  [][/\ \A p \in Procs : \A t \in tasks[p] :
          (t.st = "set" /\ t \notin tasks'[p])
            => /\ Changed \subseteq {getLockKey(t.name)}
               /\ kv[getLockKey(t.name)] = Nil
                    => /\ kv'[getLockKey(t.name)] = lockValue(p, t.id)
                       /\ pttl'[getLockKey(t.name)] = t.timeout
     /\ \A p \in Procs :
          (pc'[p] # pc[p] /\ hd[p].kind # "none")
            => Changed \subseteq {keyOf(hd[p])}
     /\ (pc' = pc /\ tasks' = tasks)
          => \A k \in Changed :
               /\ pttl'[k] = pttl[k] - 1
               /\ kv'[k] # kv[k] => pttl[k] = 1]_vars

\* a tryLock on one name got the key while the key of the other name is
\* held by another caller, whose lease is on its last tick
C37_Witness ==
  \E p, q \in Procs :
    /\ p # q
    /\ hd[p].kind = "real" /\ kv[keyOf(hd[p])] = hd[p].val
    /\ pttl[keyOf(hd[p])] = 1
    /\ \E t \in tasks[q] :
         /\ t.st = "ok" /\ t.name # hd[p].name
         /\ kv[getLockKey(t.name)] = lockValue(q, t.id)
         /\ pttl[getLockKey(t.name)] = MaxTimeout

====
